---- MODULE Spec2Model ----
(***************************************************************************)
(* Z-Secure: biometric-keyed image encryption (src/src/zsecure_encryption  *)
(* .py), face matching (src/src/face_recognition_service.py), encryption   *)
(* detection (src/src/image_processor.py), the persistent store            *)
(* (src/src/database_manager.py) and the request handlers (src/app.py).    *)
(*                                                                         *)
(* Conventions.  Byte strings are sequences over 0..255.  Python None is   *)
(* the path NoPath for a returned path and the empty sequence NoKey for    *)
(* a key.  Floating point values of face encodings are fixed-point         *)
(* integers in tenths (3 stands for 0.3).  The third-party primitives      *)
(* (AES, SHA-256, PBKDF2) are replaced by small keyed byte functions with  *)
(* the same shape: AES by a keyed bijection on 16-byte blocks, the hashes  *)
(* by a position-weighted checksum expanded to the digest length.          *)
(***************************************************************************)
EXTENDS Integers, Sequences, FiniteSets, TLC

VARIABLES
    files,      \* the file system: path -> bytes (uploads/ and processed/)
    origin,     \* history: container path -> the plaintext and key it was made from
    last,       \* the last call made and what it returned
    clock,      \* wall clock, seconds (np.datetime64('now'))
    users,      \* table users: id -> row
    face_data,  \* table face_data: rows (user_id, face_encoding)
    zsecure_keys,   \* table zsecure_keys: rows (user_id, key_hash, key_salt)
    sessions,       \* table sessions: session id -> row
    operations_log, \* table operations_log: rows in insertion order
    security_events,    \* table security_events: rows in insertion order
    extent,     \* path -> bytes of the file past those held in files (zeros)
    derived,    \* history: the calls of generate_key_from_biometrics made
    service,    \* which FaceRecognitionService app.py imported
    requests,   \* the calls under way: their position and locals
    utcoffset   \* seconds the server's local time is ahead of UTC

cipherVars == <<files, origin, clock>>
dbVars ==
    <<users, face_data, zsecure_keys, sessions, operations_log, security_events>>
auxVars == <<extent, derived, service, requests, utcoffset>>

vars == <<files, origin, last, clock, users, face_data, zsecure_keys, sessions,
          operations_log, security_events, extent, derived, service, requests,
          utcoffset>>

-----------------------------------------------------------------------------
(* Bounds of the model *)

MaxPlainLen == 18
MaxClock == 1

-----------------------------------------------------------------------------
(* Bytes *)

Byte == 0..255

RECURSIVE Xor(_, _)
Xor(a, b) ==
    IF a = 0 THEN b
    ELSE IF b = 0 THEN a
    ELSE ((a + b) % 2) + 2 * Xor(a \div 2, b \div 2)

Min(a, b) == IF a < b THEN a ELSE b
Max(a, b) == IF a > b THEN a ELSE b

\* Python slice data[a:b] for 0 <= a, clipped at the end of data.
Slice(data, a, b) == SubSeq(data, a + 1, Min(b, Len(data)))

\* bytes([v] * n)
Repeat(v, n) == [i \in 1..n |-> v]

StartsWith(data, prefix) ==
    /\ Len(data) >= Len(prefix)
    /\ SubSeq(data, 1, Len(prefix)) = prefix

\* A path is a directory and a base name (os.path.join / os.path.basename).
Path(dir, name) == [dir |-> dir, name |-> name]
NoPath == Path("", "None")
NoKey == << >>

\* b'ZSEC'
Signature == <<90, 83, 69, 67>>


-----------------------------------------------------------------------------
(* PKCS#7 padding: ZSecureEncryption._pad_data / _unpad_data *)

BlockSize == 16

\* Mutant of PadData: no padding block for a buffer already block-aligned.
PadDataAligned(data) ==
    LET padding_length == (BlockSize - (Len(data) % BlockSize)) % BlockSize
    IN  data \o Repeat(padding_length, padding_length)

PadData(data) ==
    LET padding_length == BlockSize - (Len(data) % BlockSize)
    IN  data \o Repeat(padding_length, padding_length)

\* padded_data[:-padding_length] with padding_length = padded_data[-1], taken
\* on a non-empty buffer.  Python's x[:-0] is x[:0], the empty buffer, and a
\* negative stop beyond the start also gives the empty buffer.
UnpadData(padded_data) ==
    LET padding_length == padded_data[Len(padded_data)]
    IN  IF padding_length = 0
        THEN << >>
        ELSE SubSeq(padded_data, 1, Max(Len(padded_data) - padding_length, 0))

\* What PKCS#7 asks of a padded buffer (the code never evaluates this).
PaddingWellFormed(padded_data) ==
    /\ Len(padded_data) > 0
    /\ LET n == padded_data[Len(padded_data)]
       IN  /\ n \in 1..BlockSize
           /\ n <= Len(padded_data)
           /\ \A i \in (Len(padded_data) - n + 1)..Len(padded_data) :
                  padded_data[i] = n

-----------------------------------------------------------------------------
(* AES-CBC: Cipher(algorithms.AES(key), modes.CBC(iv)).  The block cipher  *)
(* is a keyed bijection on 16-byte blocks: a rotation of the positions     *)
(* followed by the addition of two key bytes.                              *)

KeyLength == 32
IvLength == 16

\* algorithms.AES(key) raises unless key is 16, 24 or 32 bytes.
KeyAccepted(key) == Len(key) \in {16, 24, 32}

\* modes.CBC(iv) under AES raises unless the IV has the block size.
IvAccepted(iv) == Len(iv) = BlockSize

KeyByte(key, i) == key[((i - 1) % Len(key)) + 1]

RotL(i) == (i % BlockSize) + 1
RotR(i) == ((i + BlockSize - 2) % BlockSize) + 1

AesEncryptBlock(key, block) ==
    [i \in 1..BlockSize |->
        (block[RotL(i)] + KeyByte(key, i) + KeyByte(key, i + BlockSize)) % 256]

AesDecryptBlock(key, block) ==
    [i \in 1..BlockSize |->
        (block[RotR(i)] + 512 - KeyByte(key, RotR(i))
                        - KeyByte(key, RotR(i) + BlockSize)) % 256]

XorBlock(a, b) == [i \in 1..BlockSize |-> Xor(a[i], b[i])]

Block(data, n) == SubSeq(data, (n - 1) * BlockSize + 1, n * BlockSize)

\* encryptor.update(padded_data) + encryptor.finalize(), len % 16 = 0
RECURSIVE CbcEncrypt(_, _, _)
CbcEncrypt(key, prev, data) ==
    IF Len(data) = 0 THEN << >>
    ELSE LET c == AesEncryptBlock(key, XorBlock(Block(data, 1), prev))
         IN  c \o CbcEncrypt(key, c, SubSeq(data, BlockSize + 1, Len(data)))

\* decryptor.update(cipher_data) + decryptor.finalize(), len % 16 = 0
RECURSIVE CbcDecrypt(_, _, _)
CbcDecrypt(key, prev, data) ==
    IF Len(data) = 0 THEN << >>
    ELSE LET c == Block(data, 1)
         IN  XorBlock(AesDecryptBlock(key, c), prev)
                 \o CbcDecrypt(key, c, SubSeq(data, BlockSize + 1, Len(data)))

-----------------------------------------------------------------------------
(* base64.b64encode / base64.b64decode over ASCII codes *)

B64Char(v) ==
    IF v < 26 THEN 65 + v
    ELSE IF v < 52 THEN 97 + (v - 26)
    ELSE IF v < 62 THEN 48 + (v - 52)
    ELSE IF v = 62 THEN 43
    ELSE 47

\* -1 for a character outside the alphabet
B64Value(c) ==
    IF c \in 65..90 THEN c - 65
    ELSE IF c \in 97..122 THEN c - 97 + 26
    ELSE IF c \in 48..57 THEN c - 48 + 52
    ELSE IF c = 43 THEN 62
    ELSE IF c = 47 THEN 63
    ELSE -1

PadChar == 61

RECURSIVE B64Encode(_)
B64Encode(data) ==
    IF Len(data) = 0 THEN << >>
    ELSE IF Len(data) = 1 THEN
        <<B64Char(data[1] \div 4), B64Char((data[1] % 4) * 16), PadChar, PadChar>>
    ELSE IF Len(data) = 2 THEN
        <<B64Char(data[1] \div 4),
          B64Char((data[1] % 4) * 16 + data[2] \div 16),
          B64Char((data[2] % 16) * 4), PadChar>>
    ELSE
        <<B64Char(data[1] \div 4),
          B64Char((data[1] % 4) * 16 + data[2] \div 16),
          B64Char((data[2] % 16) * 4 + data[3] \div 64),
          B64Char(data[3] % 64)>> \o B64Encode(SubSeq(data, 4, Len(data)))

\* Index of the first element of s equal to c, or Len(s) + 1.
RECURSIVE IndexOf(_, _, _)
IndexOf(s, c, from) ==
    IF from > Len(s) THEN Len(s) + 1
    ELSE IF s[from] = c THEN from
    ELSE IndexOf(s, c, from + 1)

RECURSIVE B64Bytes(_)
B64Bytes(sextets) ==
    IF Len(sextets) < 2 THEN << >>
    ELSE IF Len(sextets) = 2 THEN
        <<sextets[1] * 4 + sextets[2] \div 16>>
    ELSE IF Len(sextets) = 3 THEN
        <<sextets[1] * 4 + sextets[2] \div 16,
          (sextets[2] % 16) * 16 + sextets[3] \div 4>>
    ELSE
        <<sextets[1] * 4 + sextets[2] \div 16,
          (sextets[2] % 16) * 16 + sextets[3] \div 4,
          (sextets[3] % 4) * 64 + sextets[4]>>
            \o B64Bytes(SubSeq(sextets, 5, Len(sextets)))

\* b64decode without validation: characters outside the alphabet are
\* dropped, decoding stops at the padding, and a final group that is not
\* completed by padding raises binascii.Error (ok = FALSE).
B64Decode(text) ==
    LET IsKept(c)  == B64Value(c) >= 0 \/ c = PadChar
        kept       == SelectSeq(text, IsKept)
        stop       == IndexOf(kept, PadChar, 1)
        IsPad(c)   == c = PadChar
        pads       == Len(SelectSeq(kept, IsPad))
        digits     == SubSeq(kept, 1, stop - 1)
        sextets    == [i \in 1..Len(digits) |-> B64Value(digits[i])]
        rest       == Len(sextets) % 4
    IN  [ok    |-> \/ rest = 0
                   \/ rest = 2 /\ pads >= 2
                   \/ rest = 3 /\ pads >= 1,
         bytes |-> B64Bytes(sextets)]

-----------------------------------------------------------------------------
(* The metadata block: json.dumps(metadata).encode('utf-8') of              *)
(* {'encrypted': True, 'algorithm': 'Z-Secure-v2', 'timestamp': ..,         *)
(*  'iv': ..} and json.loads of it.                                         *)

\* {"encrypted": true, "algorithm": "Z-Secure-v2", "timestamp": "
JsonHead ==
    <<123, 34, 101, 110, 99, 114, 121, 112, 116, 101, 100, 34, 58, 32, 116,
      114, 117, 101, 44, 32, 34, 97, 108, 103, 111, 114, 105, 116, 104, 109,
      34, 58, 32, 34, 90, 45, 83, 101, 99, 117, 114, 101, 45, 118, 50, 34,
      44, 32, 34, 116, 105, 109, 101, 115, 116, 97, 109, 112, 34, 58, 32, 34>>

\* ", "iv": "
JsonMid == <<34, 44, 32, 34, 105, 118, 34, 58, 32, 34>>

\* "}
JsonTail == <<34, 125>>

Quote == 34
Backslash == 92

\* str(np.datetime64('now')): seconds resolution, 19 characters; the clock
\* counts the seconds of the first minute after 1970-01-01T00:00:00.
Timestamp(now) ==
    <<49, 57, 55, 48, 45, 48, 49, 45, 48, 49, 84, 48, 48, 58, 48, 48, 58,
      48 + ((now \div 10) % 6), 48 + (now % 10)>>

TimestampLen == 19

JsonDumps(timestamp, iv_text) ==
    JsonHead \o timestamp \o JsonMid \o iv_text \o JsonTail

\* json.loads(..)['iv'] for a block of the layout JsonDumps writes; any other
\* byte string counts as unparsable (ok = FALSE).
JsonLoads(metadata_bytes) ==
    LET ivFrom   == Len(JsonHead) + TimestampLen + Len(JsonMid) + 1
        ivTo     == Len(metadata_bytes) - Len(JsonTail)
        plain(c) == c < 128 /\ c >= 32 /\ c # Quote /\ c # Backslash
        layout   ==
            /\ ivTo >= ivFrom - 1
            /\ StartsWith(metadata_bytes, JsonHead)
            /\ SubSeq(metadata_bytes, Len(JsonHead) + TimestampLen + 1,
                      ivFrom - 1) = JsonMid
            /\ SubSeq(metadata_bytes, ivTo + 1, Len(metadata_bytes)) = JsonTail
            /\ \A i \in (Len(JsonHead) + 1)..(Len(JsonHead) + TimestampLen) :
                   plain(metadata_bytes[i])
            /\ \A i \in ivFrom..ivTo : plain(metadata_bytes[i])
    IN  [ok |-> layout,
         iv |-> IF layout THEN SubSeq(metadata_bytes, ivFrom, ivTo) ELSE << >>]

\* struct.pack('<I', n): the length written low byte first
PackLE32(n) ==
    <<(n % 256), ((n \div 256) % 256), ((n \div 65536) % 256),
      ((n \div 16777216) % 256)>>

\* struct.pack('>I', n)
PackBE32(n) ==
    <<((n \div 16777216) % 256), ((n \div 65536) % 256),
      ((n \div 256) % 256), (n % 256)>>

\* struct.unpack('>I', b)[0] on exactly 4 bytes.  The value is used only as
\* a slice bound, where every value past the end of the buffer acts alike:
\* values of 2^24 and more are reported as 2^24.
UnpackBE32(b) ==
    IF b[1] > 0 THEN 16777216
    ELSE b[2] * 65536 + b[3] * 256 + b[4]

-----------------------------------------------------------------------------
(* ZSecureEncryption.encrypt_image / decrypt_image.  Each returns the      *)
(* returned path (NoPath for None), the file system it leaves and the      *)
(* locals the properties speak about.                                      *)

HeaderLen == 8

\* b'ZSEC' + metadata_length + metadata_bytes + encrypted_data
Container(key, iv, now, image_data) ==
    LET encrypted_data == CbcEncrypt(key, iv, PadData(image_data))
        metadata_bytes == JsonDumps(Timestamp(now), B64Encode(iv))
    IN  Signature \o PackBE32(Len(metadata_bytes)) \o metadata_bytes
            \o encrypted_data

EncryptedPath(image_path) == Path("processed", "encrypted_" \o image_path.name)

\* decrypt_image writing its output over the file it read
DecryptedInPlace(encrypted_path) == encrypted_path

DecryptedPath(encrypted_path) ==
    Path("processed", "decrypted_" \o encrypted_path.name)

WriteFile(fs, path, data) ==
    [p \in DOMAIN fs \cup {path} |-> IF p = path THEN data ELSE fs[p]]

\* Any exception (unreadable file, a key AES refuses) is caught: None.
EncryptImage(fs, image_path, key, iv, now) ==
    IF image_path \notin DOMAIN fs \/ ~KeyAccepted(key)
    THEN [ret |-> NoPath, fs |-> fs]
    ELSE [ret |-> EncryptedPath(image_path),
          fs  |-> WriteFile(fs, EncryptedPath(image_path),
                            Container(key, iv, now, fs[image_path]))]

\* The steps of decrypt_image in order; stage names the step that raised
\* ("done" when none did).  Every exception is caught and gives None.
DecryptImage(fs, encrypted_path, key) ==
    LET encrypted_data  == fs[encrypted_path]
        metadata_length == UnpackBE32(Slice(encrypted_data, 4, HeaderLen))
        metadata        == JsonLoads(Slice(encrypted_data, HeaderLen,
                                           HeaderLen + metadata_length))
        iv              == B64Decode(metadata.iv)
        cipher_data     == Slice(encrypted_data, HeaderLen + metadata_length,
                                 Len(encrypted_data))
        padded_data     == CbcDecrypt(key, iv.bytes, cipher_data)
        fail(stage)     == [ret |-> NoPath, fs |-> fs, stage |-> stage,
                            padded |-> << >>]
    IN  IF encrypted_path \notin DOMAIN fs THEN fail("open")
        ELSE IF ~StartsWith(encrypted_data, Signature) THEN fail("signature")
        ELSE IF Len(Slice(encrypted_data, 4, HeaderLen)) # 4 THEN fail("header")
        ELSE IF ~metadata.ok THEN fail("metadata")
        ELSE IF ~iv.ok THEN fail("iv")
        ELSE IF ~KeyAccepted(key) \/ ~IvAccepted(iv.bytes) THEN fail("cipher")
        ELSE IF Len(cipher_data) % BlockSize # 0 THEN fail("finalize")
        ELSE IF Len(padded_data) = 0 THEN fail("unpad")
        ELSE [ret    |-> DecryptedPath(encrypted_path),
              fs     |-> WriteFile(fs, DecryptedPath(encrypted_path),
                                   UnpadData(padded_data)),
              stage  |-> "done",
              padded |-> padded_data]

-----------------------------------------------------------------------------
(* The cipher API driven by a caller: one uploaded file, encrypted and      *)
(* decrypted under chosen keys, and altered on disk between the two.  As    *)
(* process_image stores every upload under a fresh uuid4 name, a file name  *)
(* is encrypted once and decrypted once.                                    *)

Upload == Path("uploads", "img")

PlainOf(n, fill, tail) == [i \in 1..n |-> IF i = n THEN tail ELSE fill]

Plaintexts ==
    {PlainOf(n, fill, tail) : n \in 0..MaxPlainLen, fill \in {7}, tail \in {16, 200}}

KeyOf(seed) == [i \in 1..KeyLength |-> (seed * i + 11) % 256]

\* b"mock_key_for_testing", the key of app.py's fallback class (20 bytes)
MockKey ==
    <<109, 111, 99, 107, 95, 107, 101, 121, 95, 102, 111, 114, 95, 116, 101,
      115, 116, 105, 110, 103>>

CallerKeys == {KeyOf(3), KeyOf(5), MockKey, NoKey}

\* secrets.token_bytes(16): two of the possible draws
IVs == {[i \in 1..IvLength |-> (i * 17) % 256], [i \in 1..IvLength |-> 255 - i]}

NoFiles == [p \in {} |-> << >>]
NoExtent == [p \in {} |-> 0]

InitCipher ==
    /\ \E p \in Plaintexts : files = WriteFile(NoFiles, Upload, p)
    /\ origin = NoFiles
    /\ last = [op |-> "init"]
    /\ clock = 0
    /\ users = << >>
    /\ face_data = << >>
    /\ zsecure_keys = << >>
    /\ sessions = << >>
    /\ operations_log = << >>
    /\ security_events = << >>
    /\ extent = NoExtent
    /\ derived = {}
    /\ service = "full"
    /\ requests = << >>
    /\ utcoffset = 0

CallEncrypt(path, key) ==
    /\ path = Upload
    /\ last.op \in {"init"}
    /\ \E iv \in IVs : \E r \in {EncryptImage(files, path, key, iv, clock)} :
             /\ files' = r.fs
             /\ origin' =
                  IF r.ret = NoPath THEN origin
                  ELSE WriteFile(origin, r.ret,
                                 [plain |-> files[path], key |-> key,
                                  container |-> r.fs[r.ret]])
             /\ last' = [op |-> "encrypt", path |-> path, key |-> key,
                         ret |-> r.ret]
    /\ UNCHANGED <<clock, dbVars, auxVars>>

CallDecrypt(path, key) ==
    /\ path \in {Upload, EncryptedPath(Upload)}
    /\ last.op # "decrypt"
    /\ \E r \in {DecryptImage(files, path, key)} :
           /\ files' = r.fs
           /\ last' = [op |-> "decrypt", path |-> path, key |-> key,
                       ret |-> r.ret, stage |-> r.stage, padded |-> r.padded,
                       input |-> files[path]]
    /\ UNCHANGED <<origin, clock, dbVars, auxVars>>

\* Somebody alters a stored container: one byte of it changed by a mask.
FlipByte(path, pos, mask) ==
    /\ path \in DOMAIN origin
    /\ last.op = "encrypt"
    /\ pos \in 1..Len(files[path])
    /\ files' = [files EXCEPT ![path][pos] = Xor(@, mask)]
    /\ last' = [op |-> "flip", path |-> path, pos |-> pos]
    /\ UNCHANGED <<origin, clock, dbVars, auxVars>>

\* Somebody cuts a stored container short.
Truncate(path, n) ==
    /\ path \in DOMAIN origin
    /\ last.op = "encrypt"
    /\ n < Len(files[path])
    /\ files' = [files EXCEPT ![path] = SubSeq(@, 1, n)]
    /\ last' = [op |-> "truncate", path |-> path, n |-> n]
    /\ UNCHANGED <<origin, clock, dbVars, auxVars>>

Tick ==
    /\ clock < MaxClock
    /\ last.op \in {"init", "generate_key"}
    /\ clock' = clock + 1
    /\ UNCHANGED <<files, origin, last, dbVars, auxVars>>

\* where the metadata block of a container ends, and where the first '=' of
\* its IV text stands
MetadataEnd ==
    HeaderLen + Len(JsonHead) + TimestampLen + Len(JsonMid) + 24 + Len(JsonTail)
IvPadAt == MetadataEnd - Len(JsonTail) - 1

\* the bytes somebody changes: one of the signature, or the first '=' of the
\* IV text turned into '!' (no base64 text any more) or into 'a' (the text
\* of 17 bytes)
Alterations ==
    {[pos |-> pos, mask |-> 32] : pos \in 1..4}
        \cup {[pos |-> IvPadAt, mask |-> 28], [pos |-> IvPadAt, mask |-> 92]}

\* the lengths a container is cut to: inside the header, inside the
\* metadata, at the end of the metadata, inside the first cipher block
Cuts == {6, 50, MetadataEnd, MetadataEnd + 5}

NextCipher ==
    \/ \E key \in CallerKeys : CallEncrypt(Upload, key)
    \/ \E path \in DOMAIN files, key \in CallerKeys : CallDecrypt(path, key)
    \/ \E path \in DOMAIN files, a \in Alterations :
           FlipByte(path, a.pos, a.mask)
    \/ \E path \in DOMAIN files, n \in Cuts : Truncate(path, n)
    \/ Tick

SpecCipher == InitCipher /\ [][NextCipher]_vars

-----------------------------------------------------------------------------
(* Face encodings and FaceRecognitionService.verify_face.  An encoding is   *)
(* what the store or process_face_data hands over: a numpy array, a Python  *)
(* list (the mock encoding [0.1] * 128) or None; its values are in tenths.  *)

EncodingLen == 128

Encoding(kind, v) == [kind |-> kind, v |-> v]
NoEncoding == Encoding("none", << >>)

\* sum of f[lo..hi], by halving
RECURSIVE SumRange(_, _, _)
SumRange(f, lo, hi) ==
    IF lo > hi THEN 0
    ELSE IF lo = hi THEN f[lo]
    ELSE LET mid == (lo + hi) \div 2
         IN  SumRange(f, lo, mid) + SumRange(f, mid + 1, hi)

Sum(f) == SumRange(f, 1, Len(f))

Abs(x) == IF x < 0 THEN -x ELSE x

\* np.var(encoding) < 0.001, on tenths: var = (n * sum(x^2) - sum(x)^2) / n^2
\* hundredths, so var < 0.001 iff 10 * (n * sum(x^2) - sum(x)^2) < n^2.
VarianceBelowMin(v) ==
    LET n  == Len(v)
        sq == [i \in 1..n |-> v[i] * v[i]]
    IN  10 * (n * Sum(sq) - Sum(v) * Sum(v)) < n * n

One == 10
MaxMagnitude == 50

\* Mutant of IsValidEncoding: the variance test left out.
IsValidEncodingNoVariance(encoding) ==
    /\ encoding.kind = "ndarray"
    /\ Len(encoding.v) = EncodingLen
    /\ ~(\A i \in 1..EncodingLen : encoding.v[i] = 0)
    /\ ~(\A i \in 1..EncodingLen : encoding.v[i] = One)
    /\ ~(\E i \in 1..EncodingLen : Abs(encoding.v[i]) > MaxMagnitude)

\* FaceRecognitionService._is_valid_encoding
IsValidEncoding(encoding) ==
    /\ encoding.kind # "none"
    /\ encoding.kind = "ndarray" /\ Len(encoding.v) = EncodingLen
    /\ ~(\A i \in 1..EncodingLen : encoding.v[i] = 0)
    /\ ~(\A i \in 1..EncodingLen : encoding.v[i] = One)
    /\ ~VarianceBelowMin(encoding.v)
    /\ ~(\E i \in 1..EncodingLen : Abs(encoding.v[i]) > MaxMagnitude)

\* face_recognition.face_distance, squared, in tenths squared
DistanceSq(a, b) ==
    Sum([i \in 1..Len(a) |-> (a[i] - b[i]) * (a[i] - b[i])])

Tolerance == 4
SpoofDistance == 1
StrictTenths == 8

\* Mutant of VerifyFace: the check against 80% of the tolerance left out.
VerifyFaceNoStrict(stored_encoding, current_encoding) ==
    /\ stored_encoding.kind # "none"
    /\ current_encoding.kind # "none"
    /\ Len(stored_encoding.v) = Len(current_encoding.v)
    /\ DistanceSq(stored_encoding.v, current_encoding.v)
           >= SpoofDistance * SpoofDistance
    /\ IsValidEncoding(stored_encoding)
    /\ IsValidEncoding(current_encoding)
    /\ DistanceSq(stored_encoding.v, current_encoding.v) <= Tolerance * Tolerance

\* Mutant of VerifyFace: the validity of the encodings not looked at.
VerifyFaceNoValidity(stored_encoding, current_encoding) ==
    LET distance2 == DistanceSq(stored_encoding.v, current_encoding.v)
    IN  /\ stored_encoding.kind # "none"
        /\ current_encoding.kind # "none"
        /\ Len(stored_encoding.v) = Len(current_encoding.v)
        /\ distance2 >= SpoofDistance * SpoofDistance
        /\ distance2 <= Tolerance * Tolerance
        /\ 100 * distance2 <= StrictTenths * StrictTenths * Tolerance * Tolerance

\* Mutant of VerifyFace: only the capture's encoding is validated.
VerifyFaceProbeOnly(stored_encoding, current_encoding) ==
    LET distance2 == DistanceSq(stored_encoding.v, current_encoding.v)
    IN  /\ stored_encoding.kind # "none"
        /\ current_encoding.kind # "none"
        /\ Len(stored_encoding.v) = Len(current_encoding.v)
        /\ distance2 >= SpoofDistance * SpoofDistance
        /\ IsValidEncoding(current_encoding)
        /\ distance2 <= Tolerance * Tolerance
        /\ 100 * distance2 <= StrictTenths * StrictTenths * Tolerance * Tolerance

\* verify_face on the stored encoding (None when the user has none) and the
\* encoding process_face_data extracts from the capture (None when it finds
\* no usable face).  Subtracting arrays of different lengths raises, and
\* every exception gives False.
VerifyFace(stored_encoding, current_encoding) ==
    LET distance2 == DistanceSq(stored_encoding.v, current_encoding.v)
    IN  IF stored_encoding.kind = "none" THEN FALSE
        ELSE IF current_encoding.kind = "none" THEN FALSE
        ELSE IF Len(stored_encoding.v) # Len(current_encoding.v) THEN FALSE
        ELSE IF distance2 < SpoofDistance * SpoofDistance THEN FALSE
        ELSE IF ~IsValidEncoding(stored_encoding)
                \/ ~IsValidEncoding(current_encoding) THEN FALSE
        ELSE IF ~(distance2 <= Tolerance * Tolerance) THEN FALSE
        ELSE IF 100 * distance2
                  > StrictTenths * StrictTenths * Tolerance * Tolerance
             THEN FALSE
        ELSE TRUE

-----------------------------------------------------------------------------
(* Key derivation: ZSecureEncryption.generate_key_from_biometrics and       *)
(* _apply_chaos_algorithm.  An identity (email) is its UTF-8 bytes.         *)

\* hashlib.sha256(data).digest() and the PBKDF2 output: a checksum weighted
\* by position, expanded to n bytes.
Digest(data, n) ==
    LET s0 == Sum(data)
        s1 == Sum([j \in 1..Len(data) |-> (j % 251) * data[j]])
    IN  [i \in 1..n |-> (s1 + i * s0 + 7 * i * i + Len(data)) % 256]

DigestLen == 32
SaltLen == 16
FloatWidth == 8

\* face_encoding.tobytes(): 8 bytes a value, in order: the value in tenths as
\* a little-endian two's-complement integer.
ToBytes(v) ==
    [j \in 1..(FloatWidth * Len(v)) |->
        LET x == v[((j - 1) \div FloatWidth) + 1]
        IN  IF (j - 1) % FloatWidth = 0 THEN x % 256
            ELSE IF x < 0 THEN 255 ELSE 0]

\* sum(data[k::3]) % 1000, the numerator of the seed
Seed(data, k) ==
    Sum([j \in 1..Len(data) |-> IF (j - 1) % 3 = k THEN data[j] ELSE 0]) % 1000

ChaosIterations == 1000

\* chaos_sequence[i]: int(|x| * |y| * |z| * 1000000) % 256 after step i + 1
\* of the Lorenz iteration from the seeds; a byte function of the seeds
\* and the step, zero throughout for zero seeds as the iteration is.
ChaosVal(x, y, z, i) == ((x + 3 * y + 7 * z) * (i + 1)) % 256

\* _apply_chaos_algorithm: seeds from the data, the chaos sequence XORed
\* over the data cyclically, SHA-256 of the result.  Empty data gives zero
\* seeds and the digest of the empty buffer.
ApplyChaosAlgorithm(data) ==
    LET x == Seed(data, 0)
        y == Seed(data, 1)
        z == Seed(data, 2)
        result == [i \in 1..Len(data) |->
                     Xor(data[i], ChaosVal(x, y, z, (i - 1) % ChaosIterations))]
    IN  Digest(result, DigestLen)

\* PBKDF2HMAC(SHA256, length=32, salt, iterations=100000).derive(chaos_key)
Pbkdf2(password, salt, n) == Digest(salt \o password \o salt, n)

\* Mutant of GenerateKeyFromBiometrics: the KDF salt drawn at the time of
\* the call (as store_zsecure_key draws its salt) instead of from the email.
GenerateKeyTimeSalted(face_encoding, email) ==
    IF face_encoding.kind # "ndarray" THEN NoKey
    ELSE Pbkdf2(ApplyChaosAlgorithm(ToBytes(face_encoding.v) \o email),
                Repeat(clock, SaltLen), KeyLength)

\* generate_key_from_biometrics: None when the encoding has no tobytes()
\* (a list, None); no other input is refused.
GenerateKeyFromBiometrics(face_encoding, email) ==
    IF face_encoding.kind # "ndarray" THEN NoKey
    ELSE LET face_bytes == ToBytes(face_encoding.v)
             chaos_key  == ApplyChaosAlgorithm(face_bytes \o email)
             salt       == SubSeq(Digest(email, DigestLen), 1, SaltLen)
         IN  Pbkdf2(chaos_key, salt, KeyLength)

-----------------------------------------------------------------------------
(* verify_face driven by a caller: one user with a stored encoding (or      *)
(* none), and captures whose encodings lie at chosen distances from it.     *)

MaxShift == 17

\* +-0.1 alternating: a valid encoding
Base == [i \in 1..EncodingLen |-> IF i % 2 = 0 THEN 1 ELSE -1]

\* v with its first k values raised by d tenths
Shifted(v, k, d) == [i \in 1..Len(v) |-> IF i <= k THEN v[i] + d ELSE v[i]]

\* v with its first value replaced
WithFirst(v, x) == [i \in 1..Len(v) |-> IF i = 1 THEN x ELSE v[i]]

Constant(x) == [i \in 1..EncodingLen |-> x]

ValidEncodings ==
    {Encoding("ndarray", Shifted(Base, k, 1)) : k \in 0..MaxShift}
        \cup {Encoding("ndarray", WithFirst(Base, 49))}

InvalidEncodings ==
    {Encoding("ndarray", Constant(0)),
     Encoding("ndarray", Constant(One)),
     Encoding("ndarray", Constant(3)),
     Encoding("ndarray", WithFirst(Constant(0), 1)),
     Encoding("ndarray", WithFirst(Base, 51)),
     Encoding("ndarray", SubSeq(Base, 1, EncodingLen - 1)),
     Encoding("list", Constant(1)),
     NoEncoding}

StoredEncodings ==
    {Encoding("ndarray", Base), Encoding("ndarray", Shifted(Base, 3, 1)),
     Encoding("ndarray", WithFirst(Base, 49))}
        \cup InvalidEncodings

FaceRow(user_id, face_encoding) ==
    [user_id |-> user_id, face_encoding |-> face_encoding]

\* DatabaseManager.get_face_encoding: the encoding of the user's row (the
\* latest one), None without a row
GetFaceEncoding(user_id) ==
    LET rows == {i \in DOMAIN face_data : face_data[i].user_id = user_id}
    IN  IF rows = {} THEN NoEncoding
        ELSE face_data[CHOOSE i \in rows : \A j \in rows : j <= i].face_encoding

InitMatch ==
    /\ files = NoFiles
    /\ origin = NoFiles
    /\ clock = 0
    /\ last = [op |-> "init"]
    /\ users = <<[email |-> <<97>>]>>
    /\ \E e \in StoredEncodings :
         face_data = IF e = NoEncoding THEN << >> ELSE <<FaceRow(1, e)>>
    /\ zsecure_keys = << >>
    /\ sessions = << >>
    /\ operations_log = << >>
    /\ security_events = << >>
    /\ extent = NoExtent
    /\ derived = {}
    /\ service = "full"
    /\ requests = << >>
    /\ utcoffset = 0

CallVerifyFace(user_id, current_encoding) ==
    /\ last' = [op |-> "verify_face", user_id |-> user_id,
                stored |-> GetFaceEncoding(user_id),
                probe |-> current_encoding,
                ret |-> VerifyFace(GetFaceEncoding(user_id), current_encoding)]
    /\ UNCHANGED <<cipherVars, dbVars, auxVars>>

CallIsValidEncoding(encoding) ==
    /\ last' = [op |-> "_is_valid_encoding", encoding |-> encoding,
                ret |-> IsValidEncoding(encoding)]
    /\ UNCHANGED <<cipherVars, dbVars, auxVars>>

NextMatch ==
    \/ \E user_id \in {1, 2}, e \in ValidEncodings \cup InvalidEncodings :
           CallVerifyFace(user_id, e)
    \/ \E e \in ValidEncodings \cup InvalidEncodings : CallIsValidEncoding(e)

SpecMatch == InitMatch /\ [][NextMatch]_vars

-----------------------------------------------------------------------------
(* generate_key_from_biometrics driven by a caller, at different times.     *)

MaxDerived == 2

\* 'a', 'b' and the empty string
Emails == {<<97>>, <<98>>, << >>}

KeyEncodings ==
    {Encoding("ndarray", Base),
     Encoding("ndarray", Shifted(Base, 3, 1)),
     Encoding("ndarray", Constant(3)),
     Encoding("ndarray", Constant(0)),
     Encoding("list", Constant(1)),
     NoEncoding}

InitKey ==
    /\ files = NoFiles
    /\ origin = NoFiles
    /\ clock = 0
    /\ last = [op |-> "init"]
    /\ users = << >>
    /\ face_data = << >>
    /\ zsecure_keys = << >>
    /\ sessions = << >>
    /\ operations_log = << >>
    /\ security_events = << >>
    /\ extent = NoExtent
    /\ derived = {}
    /\ service = "full"
    /\ requests = << >>
    /\ utcoffset = 0

CallGenerateKey(face_encoding, email) ==
    /\ Cardinality(derived) < MaxDerived
    /\ \E key \in {GenerateKeyFromBiometrics(face_encoding, email)} :
           /\ derived' = derived \cup {[face_encoding |-> face_encoding,
                                        email |-> email, key |-> key]}
           /\ last' = [op |-> "generate_key", face_encoding |-> face_encoding,
                       email |-> email, ret |-> key]
    /\ UNCHANGED <<cipherVars, dbVars, extent, service, requests, utcoffset>>

\* the byte strings _apply_chaos_algorithm is handed directly: none, one
\* byte, a few bytes
ChaosInputs == {<< >>, <<5>>, <<1, 2, 3, 4>>}

CallApplyChaosAlgorithm(data) ==
    /\ last.op = "init"
    /\ last' = [op |-> "_apply_chaos_algorithm", data |-> data,
                ret |-> ApplyChaosAlgorithm(data)]
    /\ UNCHANGED <<cipherVars, dbVars, auxVars>>

NextKey ==
    \/ \E e \in KeyEncodings, email \in Emails : CallGenerateKey(e, email)
    \/ \E data \in ChaosInputs : CallApplyChaosAlgorithm(data)
    \/ Tick

SpecKey == InitKey /\ [][NextKey]_vars

-----------------------------------------------------------------------------
(* ImageProcessor.detect_encryption and ZSecureEncryption                   *)
(* .verify_encrypted_file.  A file's size is the bytes held in files plus   *)
(* its extent.                                                              *)

MaxFileSize == 16 * 1024 * 1024

FileSize(fs, ext, file_path) ==
    Len(fs[file_path]) + (IF file_path \in DOMAIN ext THEN ext[file_path] ELSE 0)

PngMagic == <<137, 80, 78, 71, 13, 10, 26, 10>>
JpegMagic == <<255, 216, 255>>

\* PIL's Image.open succeeds: the leading bytes identify an image format.
ImageOpens(data) == StartsWith(data, PngMagic) \/ StartsWith(data, JpegMagic)

\* verify_encrypted_file: the first 4 bytes are the signature.
VerifyEncryptedFile(fs, ext, file_path) ==
    /\ file_path \in DOMAIN fs
    /\ Slice(fs[file_path], 0, 4) = Signature

\* Mutant of DetectEncryption: the signature test alone.
DetectBySignature(fs, ext, file_path) ==
    /\ file_path \in DOMAIN fs
    /\ Slice(fs[file_path], 0, 4) = Signature

\* detect_encryption: False over the size limit, True on the signature,
\* False for what opens as an image, True for anything else; False when
\* the file cannot be read.
DetectEncryption(fs, ext, file_path) ==
    IF file_path \notin DOMAIN fs THEN FALSE
    ELSE IF FileSize(fs, ext, file_path) > MaxFileSize THEN FALSE
    ELSE IF Slice(fs[file_path], 0, 4) = Signature THEN TRUE
    ELSE IF ImageOpens(fs[file_path]) THEN FALSE
    ELSE TRUE

\* An uploaded file name: stem and extension
FileName(stem, ext) == [stem |-> stem, ext |-> ext]
NameOf(filename) == filename.stem \o "." \o filename.ext

AllowedExtensions == {"png", "jpg", "jpeg", "gif", "bmp", "tiff", "webp"}

\* str.lower() on the extensions in use
Lower(ext) == IF ext = "PNG" THEN "png" ELSE ext

\* ImageProcessor.allowed_file
AllowedFile(filename) == Lower(filename.ext) \in AllowedExtensions

-----------------------------------------------------------------------------
(* DatabaseManager and SessionManager: the tables and the methods on them.  *)
(* A user id is the row's position in users (AUTOINCREMENT), a session id   *)
(* the row's position in sessions (a fresh token each time).                *)

\* werkzeug's generate_password_hash / check_password_hash: the hash
\* matches the password it was made from and no other.
GeneratePasswordHash(password) == <<"pbkdf2:sha256", password>>
CheckPasswordHash(password_hash, password) ==
    password_hash = GeneratePasswordHash(password)

\* NULL in a TIMESTAMP column
Null == << >>

\* The row create_user inserts, with the columns' defaults.  A row that
\* DELETE removed keeps its place, marked deleted: AUTOINCREMENT never
\* gives its id to another row.
UserRow(email, password) ==
    [email |-> email, password_hash |-> GeneratePasswordHash(password),
     is_active |-> TRUE, failed_attempts |-> 0, locked_until |-> Null,
     deleted |-> FALSE]

\* DatabaseManager.user_exists
UserExists(email) ==
    \E i \in DOMAIN users : ~users[i].deleted /\ users[i].email = email

Event(user_id, event_type) == [user_id |-> user_id, event_type |-> event_type]

\* DatabaseManager.create_user: the id it returns, 0 for None (the email is
\* taken: the UNIQUE constraint raises and nothing is committed)
CreateUserId(email) == IF UserExists(email) THEN 0 ELSE Len(users) + 1

\* DatabaseManager.create_user: what it does to the tables
CreateUser(email, password, face_encoding) ==
    IF UserExists(email)
    THEN UNCHANGED <<users, face_data, security_events>>
    ELSE /\ users' = Append(users, UserRow(email, password))
         /\ face_data' =
              IF face_encoding = NoEncoding THEN face_data
              ELSE Append(face_data, FaceRow(Len(users) + 1, face_encoding))
         /\ security_events' =
              Append(security_events, Event(Len(users) + 1, "USER_CREATED"))

\* Mutant of UpdateFaceData: the UPDATE without its WHERE clause.
UpdateFaceDataEveryRow(rows, user_id, new_face_encoding) ==
    [i \in DOMAIN rows |-> [rows[i] EXCEPT !.face_encoding = new_face_encoding]]

\* DatabaseManager.update_face_data: UPDATE face_data ... WHERE user_id = ?
UpdateFaceData(rows, user_id, new_face_encoding) ==
    [i \in DOMAIN rows |->
        IF rows[i].user_id = user_id
        THEN [rows[i] EXCEPT !.face_encoding = new_face_encoding]
        ELSE rows[i]]

\* DatabaseManager.get_zsecure_key: the key rebuilt from the stored encoding
\* and the email; None without an encoding or without the user.
GetZsecureKey(user_id) ==
    IF GetFaceEncoding(user_id) = NoEncoding THEN NoKey
    ELSE IF user_id \notin DOMAIN users THEN NoKey
    ELSE IF users[user_id].deleted THEN NoKey
    ELSE GenerateKeyFromBiometrics(GetFaceEncoding(user_id),
                                   users[user_id].email)

HexDigit(v) == IF v < 10 THEN 48 + v ELSE 87 + v

\* bytes.hex()
RECURSIVE Hex(_)
Hex(data) ==
    IF data = << >> THEN << >>
    ELSE <<HexDigit(Head(data) \div 16), HexDigit(Head(data) % 16)>>
             \o Hex(Tail(data))

StoredSaltLen == 32

\* secrets.token_bytes(32): one of the possible draws
StoredSalts == {Repeat(1, StoredSaltLen)}

\* store_zsecure_key keeping the key itself, in hex, in the key_hash column
StoreZsecureKeyClear(rows, user_id, key, salt) ==
    IF key = NoKey THEN rows
    ELSE Append(rows, [user_id  |-> user_id,
                       key_hash |-> Hex(key),
                       key_salt |-> salt])

\* DatabaseManager.store_zsecure_key / update_zsecure_key: a row with the
\* salted hash of the key; hashing None raises and nothing is stored.
StoreZsecureKey(rows, user_id, key, salt) ==
    IF key = NoKey THEN rows
    ELSE Append(rows, [user_id  |-> user_id,
                       key_hash |-> Hex(Pbkdf2(key, salt, DigestLen)),
                       key_salt |-> salt])

SessionTimeout == 900

\* SessionManager.create_session: the row inserted
\* SessionManager.create_session: the row inserted.  expires_at is local
\* time (datetime.now()), created_at the column's default CURRENT_TIMESTAMP,
\* which is UTC.  A row that DELETE removed keeps its place, marked deleted.
SessionRow(user_id) ==
    [user_id |-> user_id, expires_at |-> clock + SessionTimeout,
     is_active |-> TRUE, created_at |-> clock - utcoffset, deleted |-> FALSE]

\* SessionManager.is_session_valid: the row is there and has not expired;
\* is_active is not among the columns it reads.
IsSessionValid(session_id) ==
    /\ session_id \in DOMAIN sessions
    /\ ~sessions[session_id].deleted
    /\ ~(clock > sessions[session_id].expires_at)

\* SessionManager.update_session_activity
UpdateSessionActivity(rows, session_id) ==
    [i \in DOMAIN rows |->
        IF i = session_id /\ ~rows[i].deleted /\ rows[i].is_active
        THEN [rows[i] EXCEPT !.expires_at = clock + SessionTimeout]
        ELSE rows[i]]

\* login_required, passed: the browser's cookie carries user_id and
\* session_id as authenticate_face set them, and the session is valid.
LoginRequired(user_id, session_id) ==
    /\ session_id \in DOMAIN sessions
    /\ sessions[session_id].user_id = user_id
    /\ IsSessionValid(session_id)

-----------------------------------------------------------------------------
(* Credentials, lockout, account deletion and the life of a session:        *)
(* DatabaseManager.verify_user_credentials and the methods it calls,        *)
(* delete_user_account, and SessionManager's methods on one session row.    *)
(* Local time is clock, UTC is clock - utcoffset.                           *)

MaxFailedAttempts == 5
LockoutDuration == 1800
DayLength == 86400

\* SELECT ... FROM users WHERE email = ?: the id of the row, 0 for no row
GetUserByEmail(rows, email) ==
    IF \E i \in DOMAIN rows : ~rows[i].deleted /\ rows[i].email = email
    THEN CHOOSE i \in DOMAIN rows : ~rows[i].deleted /\ rows[i].email = email
    ELSE 0

\* DatabaseManager.get_user: whether it returns a row
GetUser(rows, user_id) == user_id \in DOMAIN rows /\ ~rows[user_id].deleted

\* DatabaseManager.increment_failed_attempts: datetime('now', ..) is UTC
IncrementFailedAttempts(rows, user_id, utcnow) ==
    [i \in DOMAIN rows |->
        IF i = user_id /\ ~rows[i].deleted
        THEN [rows[i] EXCEPT
                 !.failed_attempts = @ + 1,
                 !.locked_until =
                     IF rows[i].failed_attempts + 1 >= MaxFailedAttempts
                     THEN <<utcnow + LockoutDuration>> ELSE @]
        ELSE rows[i]]

\* DatabaseManager.reset_failed_attempts
ResetFailedAttempts(rows, user_id) ==
    [i \in DOMAIN rows |->
        IF i = user_id /\ ~rows[i].deleted
        THEN [rows[i] EXCEPT !.failed_attempts = 0, !.locked_until = Null]
        ELSE rows[i]]

\* verify_user_credentials, from the row it has read (user_id 0: no row) to
\* what it decides; now is datetime.now(), local time.
Verdict(rows, user_id, password, now) ==
    IF user_id = 0 THEN "unknown"
    ELSE IF rows[user_id].locked_until # Null
            /\ now < rows[user_id].locked_until[1] THEN "locked"
    ELSE IF ~rows[user_id].is_active THEN "inactive"
    ELSE IF CheckPasswordHash(rows[user_id].password_hash, password)
    THEN "verified"
    ELSE "failed"

\* verify_user_credentials, after deciding: the users table it leaves
UsersAfter(rows, verdict, user_id, utcnow) ==
    IF verdict = "verified" THEN ResetFailedAttempts(rows, user_id)
    ELSE IF verdict = "failed"
    THEN IncrementFailedAttempts(rows, user_id, utcnow)
    ELSE rows

\* verify_user_credentials, after deciding: the events it logs
EventsAfter(events, verdict, user_id) ==
    IF verdict = "locked"
    THEN Append(events, Event(user_id, "LOGIN_ATTEMPT_LOCKED"))
    ELSE IF verdict = "failed"
    THEN Append(events, Event(user_id, "LOGIN_FAILED"))
    ELSE events

\* DatabaseManager.delete_user_account: DELETE FROM users WHERE id = ?.  The
\* connections get_connection opens leave SQLite's foreign_keys pragma at
\* its default, off, so the ON DELETE CASCADE clauses of the other tables
\* do nothing.
DeleteUserAccount(rows, user_id) ==
    [i \in DOMAIN rows |->
        IF i = user_id THEN [rows[i] EXCEPT !.deleted = TRUE] ELSE rows[i]]

\* SessionManager.invalidate_session
InvalidateSession(rows, session_id) ==
    [i \in DOMAIN rows |->
        IF i = session_id /\ ~rows[i].deleted
        THEN [rows[i] EXCEPT !.is_active = FALSE] ELSE rows[i]]

\* SessionManager.extend_session
ExtendSession(rows, session_id, additional_seconds) ==
    [i \in DOMAIN rows |->
        IF i = session_id /\ ~rows[i].deleted /\ rows[i].is_active
        THEN [rows[i] EXCEPT !.expires_at = @ + additional_seconds]
        ELSE rows[i]]

\* SessionManager.cleanup_expired_sessions.  created_at reads
\* 'YYYY-MM-DD HH:MM:SS' (UTC) and is compared as text with the isoformat
\* of local now - 24 h, 'YYYY-MM-DDTHH:MM:SS..': the dates decide, and on
\* equal dates ' ' sorts before 'T'.
CleanupExpiredSessions(rows, now) ==
    LET marked ==
            [i \in DOMAIN rows |->
                IF rows[i].expires_at < now /\ rows[i].is_active
                THEN [rows[i] EXCEPT !.is_active = FALSE] ELSE rows[i]]
    IN  [i \in DOMAIN rows |->
            IF ~marked[i].is_active
               /\ marked[i].created_at \div DayLength
                      <= (now - DayLength) \div DayLength
            THEN [marked[i] EXCEPT !.deleted = TRUE] ELSE marked[i]]

-----------------------------------------------------------------------------
(* The store, the sessions and the two handlers that use a user's key,      *)
(* process_image and update_face, driven as src/test_delete_account.py      *)
(* drives the store: accounts made by create_user with array encodings,     *)
(* sessions by create_session.                                              *)

MaxUsers == 2
MaxSessions == 1
MaxOperations == 2
MaxEvents == 3

\* a small PNG: the signature and a few bytes
Picture == PngMagic \o <<0, 0, 0, 13, 73>>

\* what a browser may send as a new upload
FreshUploads ==
    {[filename |-> FileName("img", "png"), data |-> Picture],
     [filename |-> FileName("scan", "PNG"), data |-> <<1, 2, 3, 4, 5>>],
     [filename |-> FileName("notes", "txt"), data |-> Picture]}

AccountEncodings == {Encoding("ndarray", Base), NoEncoding}

\* secrets.token_bytes(16): one of the possible draws
UploadIVs == {[i \in 1..IvLength |-> (i * 17) % 256]}

CaptureEncodings == {Encoding("ndarray", Shifted(Base, 3, 1))}

InitDb ==
    /\ files = NoFiles
    /\ origin = NoFiles
    /\ clock = 0
    /\ last = [op |-> "init"]
    /\ users = << >>
    /\ face_data = << >>
    /\ zsecure_keys = << >>
    /\ sessions = << >>
    /\ operations_log = << >>
    /\ security_events = << >>
    /\ extent = NoExtent
    /\ derived = {}
    /\ service = "full"
    /\ requests = << >>
    /\ utcoffset = 0

\* Accounts are made before the first session and the first re-enrolment.
CallCreateUser(email, face_encoding) ==
    /\ Len(users) < MaxUsers
    /\ sessions = << >>
    /\ Len(security_events) = Len(users)
    /\ email # << >>
    /\ CreateUser(email, "testpassword123", face_encoding)
    /\ last' = [op |-> "create_user", ret |-> CreateUserId(email)]
    /\ UNCHANGED <<cipherVars, zsecure_keys, sessions, operations_log, auxVars>>

CallCreateSession(user_id) ==
    /\ Len(sessions) < MaxSessions
    /\ user_id \in DOMAIN users
    /\ sessions' = Append(sessions, SessionRow(user_id))
    /\ last' = [op |-> "create_session", ret |-> Len(sessions) + 1]
    /\ UNCHANGED <<cipherVars, users, face_data, zsecure_keys, operations_log,
                   security_events, auxVars>>

\* history: the containers of a user stop being of the current enrolment
Reenrolled(hist, user_id) ==
    [p \in DOMAIN hist |->
        IF hist[p].user_id = user_id
        THEN [hist[p] EXCEPT !.reenrolled = TRUE] ELSE hist[p]]

CallUpdateFaceData(user_id, new_face_encoding) ==
    /\ Len(security_events) < MaxEvents
    /\ user_id \in DOMAIN users
    /\ face_data' = UpdateFaceData(face_data, user_id, new_face_encoding)
    /\ security_events' =
         Append(security_events, Event(user_id, "FACE_DATA_UPDATED"))
    /\ origin' = Reenrolled(origin, user_id)
    /\ last' = [op |-> "update_face_data", user_id |-> user_id, ret |-> TRUE]
    /\ UNCHANGED <<files, clock, users, zsecure_keys, sessions, operations_log,
                   auxVars>>

\* update_face for a logged-in user; face_encoding is what process_face_data
\* extracted from the capture.  Only FaceRecognitionService of
\* face_recognition_service.py has process_face_data; a capture without a
\* face and a user row that is gone end the request with nothing changed.
UpdateFace(user_id, session_id, face_encoding) ==
    /\ LoginRequired(user_id, session_id)
    /\ service = "full"
    /\ face_encoding # NoEncoding
    /\ user_id \in DOMAIN users
    /\ Len(security_events) < MaxEvents
    /\ LET new_zsecure_key ==
               GenerateKeyFromBiometrics(face_encoding, users[user_id].email)
       IN  \E salt \in StoredSalts :
               zsecure_keys' =
                   StoreZsecureKey(zsecure_keys, user_id, new_zsecure_key, salt)
    /\ face_data' = UpdateFaceData(face_data, user_id, face_encoding)
    /\ security_events' =
         Append(security_events, Event(user_id, "FACE_DATA_UPDATED"))
    /\ sessions' = UpdateSessionActivity(sessions, session_id)
    /\ origin' = Reenrolled(origin, user_id)
    /\ last' = [op |-> "update_face", user_id |-> user_id, ret |-> TRUE]
    /\ UNCHANGED <<files, clock, users, operations_log, auxVars>>

RemoveFile(fs, path) == [p \in DOMAIN fs \ {path} |-> fs[p]]

\* process_image for a logged-in user.  file is the upload; source is the
\* processed file it is a download of (NoPath for a new one).  The upload
\* is stored under a fresh name (uuid4), here the number of the operation.
ProcessImage(user_id, session_id, file, source) ==
    /\ LoginRequired(user_id, session_id)
    /\ Len(operations_log) < MaxOperations
    /\ AllowedFile(file.filename)
    /\ \E iv \in UploadIVs, zsecure_key \in {GetZsecureKey(user_id)} :
         LET filename     == NameOf(file.filename)
             filepath     == Path("uploads",
                                  ToString(Len(operations_log)) \o "_" \o filename)
             saved        == WriteFile(files, filepath, file.data)
             is_encrypted == DetectEncryption(saved, extent, filepath)
             operation    == IF is_encrypted THEN "decryption" ELSE "encryption"
             result       == IF is_encrypted
                             THEN DecryptImage(saved, filepath, zsecure_key)
                             ELSE EncryptImage(saved, filepath, zsecure_key, iv,
                                               clock)
         IN  \E r \in {[ret |-> result.ret, fs |-> result.fs]} :
             /\ files' = RemoveFile(r.fs, filepath)
             /\ operations_log' =
                  Append(operations_log,
                         [user_id |-> user_id, operation_type |-> operation,
                          filename |-> filename, success |-> TRUE])
             /\ origin' =
                  IF is_encrypted \/ r.ret = NoPath THEN origin
                  ELSE WriteFile(origin, r.ret,
                                 [plain |-> file.data, key |-> zsecure_key,
                                  container |-> r.fs[r.ret],
                                  user_id |-> user_id, reenrolled |-> FALSE])
             /\ last' = [op |-> "process_image", user_id |-> user_id,
                         input |-> file.data, source |-> source,
                         is_encrypted |-> is_encrypted, operation |-> operation,
                         key |-> zsecure_key, ret |-> r.ret,
                         success |-> r.ret # NoPath]
    /\ sessions' = UpdateSessionActivity(sessions, session_id)
    /\ UNCHANGED <<clock, users, face_data, zsecure_keys, security_events,
                   auxVars>>

\* the uploads a browser can make: new files, and downloads of processed ones
Uploads ==
    {[file |-> f, source |-> NoPath] : f \in FreshUploads}
        \cup {[file |-> [filename |-> FileName(p.name, "png"), data |-> files[p]],
               source |-> p] : p \in {q \in DOMAIN files : q.dir = "processed"}}

UserIds == 1..MaxUsers

NextDb ==
    \/ \E email \in Emails, e \in AccountEncodings : CallCreateUser(email, e)
    \/ \E user_id \in UserIds : CallCreateSession(user_id)
    \/ \E user_id \in UserIds, e \in CaptureEncodings :
           CallUpdateFaceData(user_id, e)
    \/ \E user_id \in UserIds, session_id \in DOMAIN sessions,
          e \in CaptureEncodings \cup {NoEncoding} :
           UpdateFace(user_id, session_id, e)
    \/ \E user_id \in UserIds, session_id \in DOMAIN sessions, u \in Uploads :
           ProcessImage(user_id, session_id, u.file, u.source)

SpecDb == InitDb /\ [][NextDb]_vars

-----------------------------------------------------------------------------
(* Encryption detection: detect_encryption and verify_encrypted_file called *)
(* on a file on disk, and process_image routing the uploads of a logged-in  *)
(* user by it.  The file on disk is drawn from files of all the kinds the   *)
(* detection tells apart, with sizes up to, at and over the limit.          *)

Sample == Path("samples", "file")
Missing == Path("samples", "missing")

SampleHeads ==
    {Container(KeyOf(3), CHOOSE iv \in UploadIVs : TRUE, 0, Picture),
     Signature \o <<1, 2, 3>>,
     Signature,
     <<90, 83, 69>>,
     Picture,
     JpegMagic \o <<224, 0, 16>>,
     <<1, 2, 3, 4, 5>>,
     << >>}

\* the bytes past the head: none, up to the size limit, one more
SampleExtents(head) ==
    {0, MaxFileSize - Len(head), MaxFileSize - Len(head) + 1}

InitDetect ==
    /\ \E head \in SampleHeads : \E more \in SampleExtents(head) :
         /\ files = WriteFile(NoFiles, Sample, head)
         /\ extent = WriteFile(NoExtent, Sample, more)
    /\ origin = NoFiles
    /\ clock = 0
    /\ last = [op |-> "init"]
    /\ users = <<UserRow(<<97>>, "pw")>>
    /\ face_data = <<FaceRow(1, Encoding("ndarray", Base))>>
    /\ zsecure_keys = << >>
    /\ utcoffset = 0
    /\ sessions = <<SessionRow(1)>>
    /\ operations_log = << >>
    /\ security_events = <<Event(1, "USER_CREATED")>>
    /\ derived = {}
    /\ service = "full"
    /\ requests = << >>

CallDetectEncryption(file_path) ==
    /\ last' = [op |-> "detect_encryption", path |-> file_path,
                ret |-> DetectEncryption(files, extent, file_path)]
    /\ UNCHANGED <<cipherVars, dbVars, auxVars>>

CallVerifyEncryptedFile(file_path) ==
    /\ last' = [op |-> "verify_encrypted_file", path |-> file_path,
                ret |-> VerifyEncryptedFile(files, extent, file_path)]
    /\ UNCHANGED <<cipherVars, dbVars, auxVars>>

NextDetect ==
    \/ \E file_path \in {Sample, Missing} : CallDetectEncryption(file_path)
    \/ \E file_path \in {Sample, Missing} : CallVerifyEncryptedFile(file_path)
    \/ \E u \in Uploads : ProcessImage(1, 1, u.file, u.source)

SpecDetect == InitDetect /\ [][NextDetect]_vars

-----------------------------------------------------------------------------
(* The face services app.py can end up with, and the handlers that create   *)
(* accounts and sessions: register_simple, capture_face_bypass,             *)
(* capture_face and authenticate_face.                                      *)

\* face_recognition_service.py, face_recognition_service_simple.py, or the
\* class app.py defines when neither can be imported
Services == {"full", "simple", "minimal"}

\* A capture as the form carries it: the length of the base64 text and
\* whether its first 100 characters decode.
Capture(length, decodes) == [length |-> length, decodes |-> decodes]

MinCaptureLen == 100

\* process_face_data_simple(..)['success']
ProcessFaceDataSimple(face_data_b64) ==
    face_data_b64.length > MinCaptureLen /\ face_data_b64.decodes

\* A liveness result: whether a check was run on the capture, and the
\* verdict and score reported (hundredths).
Liveness(ran, is_live, liveness_score) ==
    [ran |-> ran, is_live |-> is_live, liveness_score |-> liveness_score]

NoLiveness == Liveness(FALSE, FALSE, 0)

\* {'liveness_score': 0.95, 'is_live': True}, a literal
CannedLiveness == Liveness(FALSE, TRUE, 95)

\* [0.1] * 128
MockEncoding == Encoding("list", Constant(1))

Failed == [success |-> FALSE, raised |-> FALSE, encoding |-> NoEncoding,
           liveness_result |-> NoLiveness]

\* the service has no such method: AttributeError
Raised == [success |-> FALSE, raised |-> TRUE, encoding |-> NoEncoding,
           liveness_result |-> NoLiveness]

\* face_service.process_face_data_with_liveness(face_data)
ProcessFaceDataWithLiveness(svc, face_data_b64) ==
    IF svc = "full" THEN Raised
    ELSE IF svc = "simple" /\ ~ProcessFaceDataSimple(face_data_b64) THEN Failed
    ELSE [success |-> TRUE, raised |-> FALSE, encoding |-> MockEncoding,
          liveness_result |-> CannedLiveness]

FaceFile(user_id) == Path("face_data", "user_" \o ToString(user_id) \o ".pkl")

\* os.listdir(face_data_dir) has a name starting with user_<user_id>; with
\* ids of one digit that is the user's own file.
HasFaceFile(fs, user_id) == FaceFile(user_id) \in DOMAIN fs

\* face_service.verify_face_with_liveness(user_id, face_data)
VerifyFaceWithLiveness(svc, fs, user_id, face_data_b64) ==
    IF svc = "full" THEN Raised
    ELSE IF svc = "simple"
            /\ (~HasFaceFile(fs, user_id)
                    \/ ~ProcessFaceDataSimple(face_data_b64))
    THEN Failed
    ELSE [success |-> TRUE, raised |-> FALSE, encoding |-> NoEncoding,
          liveness_result |-> CannedLiveness]

\* what save_face_encoding leaves in the file: a pickle of the encoding
\* (full), of a dict around it (simple), or the text 'registered' (minimal)
FaceFileBytes(svc) ==
    IF svc = "minimal" THEN <<114, 101, 103, 105, 115, 116, 101, 114, 101, 100>>
    ELSE IF svc = "simple" THEN <<128, 4, 125>>
    ELSE <<128, 4, 93>>

\* face_service.save_face_encoding(user_id, encoding)
SaveFaceEncoding(svc, fs, user_id) ==
    WriteFile(fs, FaceFile(user_id), FaceFileBytes(svc))

Captures == {Capture(200, TRUE), Capture(200, FALSE), Capture(50, TRUE)}

\* the passwords a form may carry; the empty one stands for a missing field
Passwords == {"pw", ""}

InitApp ==
    /\ service \in Services
    /\ requests = << >>
    /\ utcoffset = 0
    /\ files = NoFiles
    /\ origin = NoFiles
    /\ clock = 0
    /\ last = [op |-> "init"]
    /\ users = << >>
    /\ face_data = << >>
    /\ zsecure_keys = << >>
    /\ sessions = << >>
    /\ operations_log = << >>
    /\ security_events = << >>
    /\ extent = NoExtent
    /\ derived = {}

\* what a handler did: the user it created (0 for none), the session it
\* created (0 for none) and the liveness result it had in hand
Done(op, user_id, session_id, liveness_result) ==
    [op |-> op, user_id |-> user_id, session_id |-> session_id,
     liveness |-> liveness_result]

RegisterSimple(email, password) ==
    /\ Len(users) < MaxUsers
    /\ email # << >> /\ password # ""
    /\ CreateUser(email, password, NoEncoding)
    /\ last' = Done("register_simple", CreateUserId(email), 0, NoLiveness)
    /\ UNCHANGED <<cipherVars, zsecure_keys, sessions, operations_log, auxVars>>

CaptureFaceBypass(email, password) ==
    /\ Len(users) < MaxUsers
    /\ email # << >> /\ password # ""
    /\ CreateUser(email, password, MockEncoding)
    /\ files' = IF CreateUserId(email) = 0 THEN files
                ELSE SaveFaceEncoding(service, files, CreateUserId(email))
    /\ last' = Done("capture_face_bypass", CreateUserId(email), 0, NoLiveness)
    /\ UNCHANGED <<origin, clock, zsecure_keys, sessions, operations_log,
                   auxVars>>

\* capture_face: the account, the face file, and the row of zsecure_keys
\* for the key derived from the encoding.
CaptureFace(email, password, face_data_b64) ==
    /\ Len(users) < MaxUsers
    /\ email # << >> /\ password # ""
    /\ LET processing_result ==
               ProcessFaceDataWithLiveness(service, face_data_b64)
           face_encoding == processing_result.encoding
           user_id       == CreateUserId(email)
           zsecure_key   == GenerateKeyFromBiometrics(face_encoding, email)
       IN  IF ~processing_result.success
           THEN /\ last' = Done("capture_face", 0, 0,
                                processing_result.liveness_result)
                /\ UNCHANGED <<files, dbVars>>
           ELSE /\ CreateUser(email, password, face_encoding)
                /\ files' = IF user_id = 0 THEN files
                            ELSE SaveFaceEncoding(service, files, user_id)
                /\ \E salt \in StoredSalts :
                     zsecure_keys' =
                         IF user_id = 0 THEN zsecure_keys
                         ELSE StoreZsecureKey(zsecure_keys, user_id,
                                              zsecure_key, salt)
                /\ last' = Done("capture_face", user_id, 0,
                                processing_result.liveness_result)
                /\ UNCHANGED <<sessions, operations_log>>
    /\ UNCHANGED <<origin, clock, auxVars>>

MaxLogins == 1

\* login: the password step of a login flow.  The answer, face_auth.html
\* with the user's id in it or the login page again, is recorded in requests
\* (user_id 0 for the login page).
Login(email, password) ==
    /\ Len(requests) < MaxLogins
    /\ email # << >> /\ password # ""
    /\ \E user_id \in {GetUserByEmail(users, email)} :
       \E verdict \in {Verdict(users, user_id, password, clock)} :
           /\ users' = UsersAfter(users, verdict, user_id, clock - utcoffset)
           /\ security_events' = EventsAfter(security_events, verdict, user_id)
           /\ requests' =
                Append(requests,
                       [op |-> "login", email |-> email,
                        user_id |-> IF verdict = "verified" THEN user_id ELSE 0])
           /\ last' = Done("login", 0, 0, NoLiveness)
    /\ UNCHANGED <<cipherVars, face_data, zsecure_keys, sessions, operations_log,
                   extent, derived, service, utcoffset>>

\* authenticate_face: user_id is the form's field, whatever it names.
AuthenticateFace(user_id, face_data_b64) ==
    /\ Len(sessions) < MaxSessions
    /\ LET verification_result ==
               VerifyFaceWithLiveness(service, files, user_id, face_data_b64)
       IN  IF ~verification_result.success
           THEN /\ last' = Done("authenticate_face", 0, 0,
                                verification_result.liveness_result)
                /\ UNCHANGED sessions
           ELSE /\ sessions' = Append(sessions, SessionRow(user_id))
                /\ last' = Done("authenticate_face", 0, Len(sessions) + 1,
                                verification_result.liveness_result)
    /\ UNCHANGED <<cipherVars, users, face_data, zsecure_keys, operations_log,
                   security_events, auxVars>>

NextApp ==
    \/ \E email \in Emails, password \in Passwords :
           RegisterSimple(email, password)
    \/ \E email \in Emails, password \in Passwords :
           CaptureFaceBypass(email, password)
    \/ \E email \in Emails, password \in Passwords, c \in Captures :
           CaptureFace(email, password, c)
    \/ \E email \in Emails, password \in Passwords \cup {"123456"} :
           Login(email, password)
    \/ \E user_id \in 1..(MaxUsers + 1), c \in Captures :
           AuthenticateFace(user_id, c)

SpecApp == InitApp /\ [][NextApp]_vars

-----------------------------------------------------------------------------
(* liveness_detector.py: the four extractors and the combined verdict.      *)
(* A frame is given by what MediaPipe and OpenCV report on it: whether      *)
(* cv2.cvtColor accepts it, the landmarks' eye aspect ratios (hundredths)   *)
(* and pose angles (degrees) when FaceMesh finds a face, and the bounding   *)
(* box (pixels, after int()), Laplacian variance and mean brightness of the *)
(* face region when FaceDetection finds one.                                *)

BlinkThreshold == 20
HeadTurnThreshold == 15
TextureVarianceThreshold == 50
MinFaceSize == 100

\* results.multi_face_landmarks is empty
NoMesh == [found |-> FALSE, left_ear |-> 0, right_ear |-> 0,
           pitch |-> 0, yaw |-> 0, roll |-> 0]

Mesh(ears, pose) ==
    [found |-> TRUE, left_ear |-> ears[1], right_ear |-> ears[2],
     pitch |-> pose[1], yaw |-> pose[2], roll |-> pose[3]]

\* results.detections is empty
NoDetection == [found |-> FALSE, face_width |-> 0, face_height |-> 0,
                variance |-> 0, brightness |-> 0]

Detection(box, variance, brightness) ==
    [found |-> TRUE, face_width |-> box[1], face_height |-> box[2],
     variance |-> variance, brightness |-> brightness]

\* image.shape[:2] of the frames taken
FrameWidth == 640
FrameHeight == 480

Frame(readable, mesh, detection) ==
    [readable |-> readable, mesh |-> mesh, detection |-> detection]

\* An array cv2.cvtColor raises on.
BadFrame == Frame(FALSE, NoMesh, NoDetection)

\* avg_ear is (left_ear + right_ear) / 2.0: the sum of the two, in
\* two-hundredths, is compared with twice the threshold.
\* blink_data of the defaults whose avg_ear is that of an open eye
DetectBlinkOpenDefault(image) ==
    IF image.readable /\ image.mesh.found
    THEN [blink_detected |->
              image.mesh.left_ear + image.mesh.right_ear < 2 * BlinkThreshold,
          left_ear |-> image.mesh.left_ear,
          right_ear |-> image.mesh.right_ear,
          avg_ear2 |-> image.mesh.left_ear + image.mesh.right_ear]
    ELSE [blink_detected |-> FALSE, left_ear |-> 30, right_ear |-> 30,
          avg_ear2 |-> 60]

DetectBlink(image) ==
    IF image.readable /\ image.mesh.found
    THEN [blink_detected |->
              image.mesh.left_ear + image.mesh.right_ear < 2 * BlinkThreshold,
          left_ear |-> image.mesh.left_ear,
          right_ear |-> image.mesh.right_ear,
          avg_ear2 |-> image.mesh.left_ear + image.mesh.right_ear]
    ELSE [blink_detected |-> FALSE, left_ear |-> 0, right_ear |-> 0,
          avg_ear2 |-> 0]

DetectHeadMovement(image) ==
    IF image.readable /\ image.mesh.found
    THEN [head_pose |-> [pitch |-> image.mesh.pitch, yaw |-> image.mesh.yaw,
                         roll |-> image.mesh.roll],
          movement_detected |->
              \/ Abs(image.mesh.yaw) > HeadTurnThreshold
              \/ Abs(image.mesh.pitch) > HeadTurnThreshold
              \/ Abs(image.mesh.roll) > HeadTurnThreshold]
    ELSE [head_pose |-> [pitch |-> 0, yaw |-> 0, roll |-> 0],
          movement_detected |-> FALSE]

\* face_region.size of gray[y:y+height, x:x+width]
RegionSize(detection) == detection.face_width * detection.face_height

AnalyzeTextureVariance(image) ==
    IF image.readable /\ image.detection.found
       /\ RegionSize(image.detection) > 0
    THEN [variance |-> image.detection.variance,
          is_real |-> image.detection.variance > TextureVarianceThreshold,
          face_detected |-> TRUE]
    ELSE [variance |-> 0, is_real |-> FALSE, face_detected |-> FALSE]

CheckFaceQuality(image) ==
    IF image.readable /\ image.detection.found
    THEN LET face_width == image.detection.face_width
             face_height == image.detection.face_height
             face_size == Min(face_width, face_height)
             face_area == face_width * face_height
             image_area == FrameWidth * FrameHeight
         IN [face_detected |-> TRUE,
             face_size |-> face_size,
             face_area |-> face_area,
             image_area |-> image_area,
             quality_sufficient |->
                 face_size >= MinFaceSize /\ 10 * face_area >= image_area,
             brightness_ok |->
                 /\ RegionSize(image.detection) > 0
                 /\ 50 < image.detection.brightness
                 /\ image.detection.brightness < 200]
    ELSE [face_detected |-> FALSE, face_size |-> 0, face_area |-> 0,
          image_area |-> 1, quality_sufficient |-> FALSE,
          brightness_ok |-> FALSE]

\* the number of TRUE entries of a sequence of booleans
Count(flags) == Cardinality({i \in DOMAIN flags : flags[i]})

\* the verdict that asks for three of the four signals
ComprehensiveLivenessCheckThree(image, now) ==
    LET blink_result == DetectBlink(image)
        movement_result == DetectHeadMovement(image)
        texture_result == AnalyzeTextureVariance(image)
        quality_result == CheckFaceQuality(image)
        signals == << blink_result.blink_detected
                          \/ blink_result.avg_ear2 > 30,
                      movement_result.movement_detected,
                      texture_result.is_real,
                      quality_result.quality_sufficient
                          /\ quality_result.brightness_ok >>
    IN [liveness_passed |-> Count(signals) >= 3,
        liveness_score |-> 25 * Count(signals),
        checks_passed |-> Count(signals),
        total_checks |-> 4,
        blink_detection |-> blink_result,
        head_movement |-> movement_result,
        texture_analysis |-> texture_result,
        face_quality |-> quality_result,
        timestamp |-> now,
        signals |-> signals]

\* comprehensive_liveness_check(image); scores in hundredths.  signals
\* records which of the four branches added to the score.
ComprehensiveLivenessCheck(image, now) ==
    LET blink_result == DetectBlink(image)
        movement_result == DetectHeadMovement(image)
        texture_result == AnalyzeTextureVariance(image)
        quality_result == CheckFaceQuality(image)
        signals == << blink_result.blink_detected
                          \/ blink_result.avg_ear2 > 30,
                      movement_result.movement_detected,
                      texture_result.is_real,
                      quality_result.quality_sufficient
                          /\ quality_result.brightness_ok >>
        liveness_score == 25 * Count(signals)
        checks_passed == Count(signals)
    IN [liveness_passed |-> checks_passed >= 2 \/ liveness_score >= 50,
        liveness_score |-> liveness_score,
        checks_passed |-> checks_passed,
        total_checks |-> 4,
        blink_detection |-> blink_result,
        head_movement |-> movement_result,
        texture_analysis |-> texture_result,
        face_quality |-> quality_result,
        timestamp |-> now,
        signals |-> signals]

(* SpecLive: comprehensive_liveness_check called on a frame *)

\* (left_ear, right_ear): closed, at 0.15, inside 0.15..0.2, at 0.2, open
Ears == {<<0, 0>>, <<15, 15>>, <<17, 18>>, <<20, 20>>, <<30, 30>>}

\* (pitch, yaw, roll)
Poses == {<<0, 0, 0>>, <<0, 15, 0>>, <<0, 16, 0>>, <<-16, 0, 0>>,
          <<0, 0, -16>>}

\* (face_width, face_height): an empty box, a narrow one, a small one, one
\* just under and one at a tenth of the frame, a large one
Boxes == {<<0, 120>>, <<99, 400>>, <<100, 100>>, <<191, 160>>, <<192, 160>>,
          <<300, 300>>}

Variances == {50, 51}

Brightnesses == {49, 50, 51, 199, 200, 201}

Frames ==
    {BadFrame} \cup
    {Frame(TRUE, m, d) :
        m \in {NoMesh} \cup {Mesh(e, p) : e \in Ears, p \in Poses},
        d \in {NoDetection} \cup
              {Detection(b, v, l) :
                  b \in Boxes, v \in Variances, l \in Brightnesses}}

InitLive ==
    /\ files = NoFiles
    /\ origin = NoFiles
    /\ clock = 0
    /\ last = [op |-> "init"]
    /\ users = << >>
    /\ face_data = << >>
    /\ zsecure_keys = << >>
    /\ sessions = << >>
    /\ operations_log = << >>
    /\ security_events = << >>
    /\ extent = NoExtent
    /\ derived = {}
    /\ service = "full"
    /\ requests = << >>
    /\ utcoffset = 0

CallComprehensiveLivenessCheck(image) ==
    /\ last.op = "init"
    /\ \E result \in {ComprehensiveLivenessCheck(image, clock)} :
           last' = [op |-> "comprehensive_liveness_check", image |-> image,
                    result |-> result]
    /\ UNCHANGED <<cipherVars, dbVars, auxVars>>

NextLive == \E image \in Frames : CallComprehensiveLivenessCheck(image)

SpecLive == InitLive /\ [][NextLive]_vars

-----------------------------------------------------------------------------
(* process_image requests served concurrently (one thread per request).    *)
(* A request advances by the steps at which it touches the file system or  *)
(* the database: the upload saved, the key and the detection, the input    *)
(* read by encrypt_image / decrypt_image, the output opened ('wb' empties  *)
(* it), the output written, and the log entry with the upload removed.     *)

MaxRequests == 2

\* f"{uuid.uuid4()}_{filename}" with the uuid drawn without the uuid
BareFilename(uuid, filename) == filename

\* f"{uuid.uuid4()}_{filename}"
UniqueFilename(uuid, filename) == ToString(uuid) \o "_" \o filename

\* the two accounts of SpecConc
ConcEncodings ==
    <<Encoding("ndarray", Base), Encoding("ndarray", Shifted(Base, 3, 1))>>

\* a picture, and a container user 1 downloaded earlier
ConcUploads ==
    {[filename |-> FileName("img", "png"), data |-> Picture],
     [filename |-> FileName("enc", "png"),
      data |-> Container(GenerateKeyFromBiometrics(ConcEncodings[1], <<97>>),
                         CHOOSE iv \in UploadIVs : TRUE, 0, Picture)]}

InitConc ==
    /\ files = NoFiles
    /\ origin = NoFiles
    /\ clock = 0
    /\ last = [op |-> "init"]
    /\ users = <<UserRow(<<97>>, "pw"), UserRow(<<98>>, "pw")>>
    /\ face_data = <<FaceRow(1, ConcEncodings[1]), FaceRow(2, ConcEncodings[2])>>
    /\ zsecure_keys = << >>
    /\ utcoffset = 0
    /\ sessions = <<SessionRow(1), SessionRow(2)>>
    /\ operations_log = << >>
    /\ security_events = <<Event(1, "USER_CREATED"), Event(2, "USER_CREATED")>>
    /\ extent = NoExtent
    /\ derived = {}
    /\ service = "full"
    /\ requests = << >>

\* A request arrives and runs up to file.save(filepath).
Submit(user_id, session_id, file) ==
    /\ Len(requests) < MaxRequests
    /\ LoginRequired(user_id, session_id)
    /\ AllowedFile(file.filename)
    /\ LET filename == NameOf(file.filename)
           filepath == Path("uploads",
                            UniqueFilename(Len(requests) + 1, filename))
       IN  /\ files' = WriteFile(files, filepath, file.data)
           /\ requests' =
                Append(requests,
                       [pc |-> "saved", user_id |-> user_id, file |-> file,
                        filename |-> filename, filepath |-> filepath,
                        zsecure_key |-> NoKey, is_encrypted |-> FALSE,
                        image_data |-> << >>, iv |-> << >>, now |-> 0,
                        final_data |-> << >>, output_path |-> NoPath,
                        result_path |-> NoPath])
    /\ sessions' = UpdateSessionActivity(sessions, session_id)
    /\ last' = [op |-> "submit", request |-> Len(requests) + 1]
    /\ UNCHANGED <<origin, clock, users, face_data, zsecure_keys,
                   operations_log, security_events, extent, derived, service,
                   utcoffset>>

Step(r, req, fs) ==
    /\ requests' = [requests EXCEPT ![r] = req]
    /\ files' = fs
    /\ last' = [op |-> "step", request |-> r]
    /\ UNCHANGED <<origin, clock, dbVars, extent, derived, service, utcoffset>>

\* get_zsecure_key and detect_encryption(filepath)
Prepare(r) ==
    /\ requests[r].pc = "saved"
    /\ Step(r, [requests[r] EXCEPT
                   !.pc = "detected",
                   !.zsecure_key = GetZsecureKey(requests[r].user_id),
                   !.is_encrypted =
                       DetectEncryption(files, extent, requests[r].filepath)],
            files)

\* encrypt_image / decrypt_image up to the output path: the input read and
\* the bytes to write computed; any exception returns None.
ReadInput(r) ==
    /\ requests[r].pc = "detected"
    /\ \E iv \in UploadIVs :
         LET req  == requests[r]
             read == req.filepath \in DOMAIN files
             data == IF read THEN files[req.filepath] ELSE << >>
             own  == WriteFile(NoFiles, req.filepath, data)
         IN  \E res \in {IF ~read THEN [ret |-> NoPath, fs |-> own]
                         ELSE IF req.is_encrypted
                         THEN DecryptImage(own, req.filepath, req.zsecure_key)
                         ELSE EncryptImage(own, req.filepath, req.zsecure_key,
                                           iv, clock)} :
                 Step(r, [req EXCEPT
                             !.pc = IF res.ret = NoPath THEN "returned"
                                    ELSE "computed",
                             !.image_data = data,
                             !.iv = iv,
                             !.now = clock,
                             !.output_path = res.ret,
                             !.final_data = IF res.ret = NoPath THEN << >>
                                            ELSE res.fs[res.ret]],
                      files)

\* open(output_path, 'wb')
OpenOutput(r) ==
    /\ requests[r].pc = "computed"
    /\ Step(r, [requests[r] EXCEPT !.pc = "opened"],
            WriteFile(files, requests[r].output_path, << >>))

\* f.write(..), the file closed and the path returned
WriteOutput(r) ==
    /\ requests[r].pc = "opened"
    /\ Step(r, [requests[r] EXCEPT !.pc = "returned",
                                   !.result_path = requests[r].output_path],
            WriteFile(files, requests[r].output_path, requests[r].final_data))

\* log_operation, os.remove(filepath) and the response
Finish(r) ==
    /\ requests[r].pc = "returned"
    /\ requests' = [requests EXCEPT ![r].pc = "done"]
    /\ operations_log' =
         Append(operations_log,
                [user_id |-> requests[r].user_id,
                 operation_type |-> IF requests[r].is_encrypted
                                    THEN "decryption" ELSE "encryption",
                 filename |-> requests[r].filename, success |-> TRUE])
    /\ files' = RemoveFile(files, requests[r].filepath)
    /\ last' = [op |-> "finish", request |-> r]
    /\ UNCHANGED <<origin, clock, users, face_data, zsecure_keys, sessions,
                   security_events, extent, derived, service, utcoffset>>

NextConc ==
    \/ \E user_id \in DOMAIN users, file \in ConcUploads :
           Submit(user_id, user_id, file)
    \/ \E r \in DOMAIN requests : Prepare(r)
    \/ \E r \in DOMAIN requests : ReadInput(r)
    \/ \E r \in DOMAIN requests : OpenOutput(r)
    \/ \E r \in DOMAIN requests : WriteOutput(r)
    \/ \E r \in DOMAIN requests : Finish(r)

SpecConc == InitConc /\ [][NextConc]_vars

-----------------------------------------------------------------------------
(* Lockout: verify_user_credentials called again and again for one          *)
(* account while time passes, on servers in three time zones.  requests     *)
(* is the list of the calls made, each with what it saw and what it left.   *)

MaxCalls == 6
MaxDays == 1
MaxSeconds == 1800

\* the servers' zones: west of UTC, UTC, east of UTC
UtcOffsets == {-3600, 0, 3600}

InitLockout ==
    /\ files = NoFiles
    /\ origin = NoFiles
    /\ clock = 0
    /\ last = [op |-> "init"]
    /\ users = << >>
    /\ face_data = << >>
    /\ zsecure_keys = << >>
    /\ sessions = << >>
    /\ operations_log = << >>
    /\ security_events = << >>
    /\ extent = NoExtent
    /\ derived = {}
    /\ service = "full"
    /\ requests = << >>
    /\ utcoffset \in UtcOffsets

\* failed_attempts of a user's row, 0 without the row
FailedAttempts(rows, user_id) ==
    IF user_id = 0 THEN 0 ELSE rows[user_id].failed_attempts

\* verify_user_credentials(email, password) as one call
CallVerifyUserCredentials(email, password) ==
    /\ Len(requests) < MaxCalls
    /\ \E user_id \in {GetUserByEmail(users, email)} :
       \E verdict \in {Verdict(users, user_id, password, clock)} :
       \E after \in {UsersAfter(users, verdict, user_id, clock - utcoffset)} :
           /\ users' = after
           /\ security_events' = EventsAfter(security_events, verdict, user_id)
           /\ requests' =
                Append(requests,
                       [user_id |-> user_id, now |-> clock, verdict |-> verdict,
                        ret |-> IF verdict = "verified" THEN user_id ELSE 0,
                        failed_before |-> FailedAttempts(users, user_id),
                        failed_after |-> FailedAttempts(after, user_id),
                        locked_after |-> IF user_id = 0 THEN Null
                                         ELSE after[user_id].locked_until])
           /\ last' = [op |-> "verify_user_credentials", verdict |-> verdict]
    /\ UNCHANGED <<cipherVars, face_data, zsecure_keys, sessions, operations_log,
                   extent, derived, service, utcoffset>>

\* time passing between two calls
Advance(d) ==
    /\ (clock + d) \div DayLength <= MaxDays
    /\ (clock + d) % DayLength <= MaxSeconds
    /\ clock' = clock + d
    /\ UNCHANGED <<files, origin, last, dbVars, auxVars>>

NextLockout ==
    \/ \E email \in {<<97>>} : CallCreateUser(email, NoEncoding)
    \/ \E email \in {<<97>>, <<98>>}, password \in {"testpassword123", "123456"} :
           CallVerifyUserCredentials(email, password)
    \/ \E d \in {900} : Advance(d)

SpecLockout == InitLockout /\ [][NextLockout]_vars

-----------------------------------------------------------------------------
(* Guessing in parallel: verify_user_credentials calls for one account      *)
(* running at once.  A call reads the row and closes its connection         *)
(* (select), then decides from what it read and writes (decide).            *)

MaxGuesses == 6

InitGuess ==
    /\ files = NoFiles
    /\ origin = NoFiles
    /\ clock = 0
    /\ last = [op |-> "init"]
    /\ users = <<UserRow(<<97>>, "pw")>>
    /\ face_data = << >>
    /\ zsecure_keys = << >>
    /\ sessions = << >>
    /\ operations_log = << >>
    /\ security_events = << >>
    /\ extent = NoExtent
    /\ derived = {}
    /\ service = "full"
    /\ requests = << >>
    /\ utcoffset = 0

BeginVerify(email, password) ==
    /\ Len(requests) < MaxGuesses
    /\ requests' =
         Append(requests,
                [email |-> email, password |-> password, pc |-> "select",
                 user_id |-> 0, seen |-> << >>, verdict |-> "none",
                 failed_attempts |-> 0])
    /\ last' = [op |-> "verify_user_credentials"]
    /\ UNCHANGED <<cipherVars, dbVars, extent, derived, service, utcoffset>>

\* lines 169-178: the SELECT, and the connection closed
SelectUser(r) ==
    /\ requests[r].pc = "select"
    /\ requests' =
         [requests EXCEPT ![r].pc = "decide",
                          ![r].user_id = GetUserByEmail(users, requests[r].email),
                          ![r].seen = users]
    /\ last' = [op |-> "verify_user_credentials"]
    /\ UNCHANGED <<cipherVars, dbVars, extent, derived, service, utcoffset>>

\* lines 180-202: the checks on the row read, check_password_hash, and the
\* writes; failed_attempts records the column's value in the database at
\* the time the password is checked.
Decide(r) ==
    /\ requests[r].pc = "decide"
    /\ \E user_id \in {requests[r].user_id} :
       \E verdict \in {Verdict(requests[r].seen, user_id,
                               requests[r].password, clock)} :
           /\ users' = UsersAfter(users, verdict, user_id, clock - utcoffset)
           /\ security_events' = EventsAfter(security_events, verdict, user_id)
           /\ requests' =
                [requests EXCEPT ![r].pc = "done", ![r].verdict = verdict,
                                 ![r].failed_attempts =
                                     FailedAttempts(users, user_id)]
           /\ last' = [op |-> "verify_user_credentials"]
    /\ UNCHANGED <<cipherVars, face_data, zsecure_keys, sessions, operations_log,
                   extent, derived, service, utcoffset>>

NextGuess ==
    \/ \E password \in {"123456"} : BeginVerify(<<97>>, password)
    \/ \E r \in DOMAIN requests : SelectUser(r)
    \/ \E r \in DOMAIN requests : Decide(r)

SpecGuess == InitGuess /\ [][NextGuess]_vars

-----------------------------------------------------------------------------
(* Registering in parallel: create_user calls running at once, each on its  *)
(* own connection.  SQLite lets one connection write at a time: from its    *)
(* first INSERT to its commit a call holds the write lock, its rows are     *)
(* seen by no other connection, and another call's INSERT waits, or gives   *)
(* up after the busy timeout with 'database is locked'.                     *)

MaxRegistrations == 3

InitRegister ==
    /\ files = NoFiles
    /\ origin = NoFiles
    /\ clock = 0
    /\ last = [op |-> "init"]
    /\ users = << >>
    /\ face_data = << >>
    /\ zsecure_keys = << >>
    /\ sessions = << >>
    /\ operations_log = << >>
    /\ security_events = << >>
    /\ extent = NoExtent
    /\ derived = {}
    /\ service = "full"
    /\ requests = << >>
    /\ utcoffset = 0

\* a users table whose email column has no UNIQUE constraint
EmailFree(rows, email) == FALSE

\* the UNIQUE constraint on users.email: whether an INSERT of email fails
EmailTaken(rows, email) ==
    \E i \in DOMAIN rows : ~rows[i].deleted /\ rows[i].email = email

\* some call is between its first INSERT and its commit
WriteLocked == \E r \in DOMAIN requests : requests[r].pc \in {"face", "commit"}

\* a call begins; free records what user_exists(email) answers at that
\* time, the check register makes before the capture page is shown
BeginCreateUser(email, password, face_encoding) ==
    /\ Len(requests) < MaxRegistrations
    /\ requests' =
         Append(requests,
                [email |-> email, password |-> password,
                 face_encoding |-> face_encoding, pc |-> "user",
                 user_id |-> 0, ret |-> 0, busy |-> FALSE,
                 free |-> ~UserExists(email)])
    /\ last' = [op |-> "begin"]
    /\ UNCHANGED <<cipherVars, dbVars, extent, derived, service, utcoffset>>

\* lines 123-128: INSERT INTO users; an IntegrityError ends the call
InsertUser(r) ==
    /\ requests[r].pc = "user"
    /\ ~WriteLocked
    /\ requests' =
         IF EmailTaken(users, requests[r].email)
         THEN [requests EXCEPT ![r].pc = "done"]
         ELSE [requests EXCEPT ![r].pc = "face", ![r].user_id = Len(users) + 1]
    /\ last' = [op |-> "insert_user"]
    /\ UNCHANGED <<cipherVars, dbVars, extent, derived, service, utcoffset>>

\* lines 123-126 while another call holds the lock for too long:
\* OperationalError, caught like any exception
Busy(r) ==
    /\ requests[r].pc = "user"
    /\ WriteLocked
    /\ requests' = [requests EXCEPT ![r].pc = "done", ![r].busy = TRUE]
    /\ last' = [op |-> "busy"]
    /\ UNCHANGED <<cipherVars, dbVars, extent, derived, service, utcoffset>>

\* lines 131-136: INSERT INTO face_data, when there is an encoding
InsertFace(r) ==
    /\ requests[r].pc = "face"
    /\ requests' = [requests EXCEPT ![r].pc = "commit"]
    /\ last' = [op |-> "insert_face"]
    /\ UNCHANGED <<cipherVars, dbVars, extent, derived, service, utcoffset>>

\* line 138: the rows become the database's
Commit(r) ==
    /\ requests[r].pc = "commit"
    /\ users' = Append(users, UserRow(requests[r].email, requests[r].password))
    /\ face_data' =
         IF requests[r].face_encoding = NoEncoding THEN face_data
         ELSE Append(face_data,
                     FaceRow(requests[r].user_id, requests[r].face_encoding))
    /\ requests' = [requests EXCEPT ![r].pc = "log"]
    /\ last' = [op |-> "commit"]
    /\ UNCHANGED <<cipherVars, zsecure_keys, sessions, operations_log,
                   security_events, extent, derived, service, utcoffset>>

\* lines 141-144: the event, and the id returned
LogCreated(r) ==
    /\ requests[r].pc = "log"
    /\ security_events' =
         Append(security_events, Event(requests[r].user_id, "USER_CREATED"))
    /\ requests' = [requests EXCEPT ![r].pc = "done",
                                    ![r].ret = requests[r].user_id]
    /\ last' = [op |-> "log"]
    /\ UNCHANGED <<cipherVars, users, face_data, zsecure_keys, sessions,
                   operations_log, extent, derived, service, utcoffset>>

NextRegister ==
    \/ \E email \in {<<97>>, <<98>>}, e \in {Encoding("ndarray", Base), NoEncoding} :
           BeginCreateUser(email, "pw", e)
    \/ \E r \in DOMAIN requests : InsertUser(r)
    \/ \E r \in DOMAIN requests : Busy(r)
    \/ \E r \in DOMAIN requests : InsertFace(r)
    \/ \E r \in DOMAIN requests : Commit(r)
    \/ \E r \in DOMAIN requests : LogCreated(r)

SpecRegister == InitRegister /\ [][NextRegister]_vars

-----------------------------------------------------------------------------
(* Sessions and the end of an account: sessions opened for an account, used *)
(* by requests, closed by logout and by delete_account, and SessionManager's *)
(* maintenance methods called on them while time passes.                    *)

MaxOpen == 2
MaxAhead == 1800

InitSession ==
    /\ files = NoFiles
    /\ origin = NoFiles
    /\ clock = 0
    /\ last = [op |-> "init"]
    /\ users = << >>
    /\ face_data = << >>
    /\ zsecure_keys = << >>
    /\ sessions = << >>
    /\ operations_log = << >>
    /\ security_events = << >>
    /\ extent = NoExtent
    /\ derived = {}
    /\ service = "full"
    /\ requests = << >>
    /\ utcoffset = 0

\* authenticate_face, passed: a session for the account
OpenSession(user_id) ==
    /\ Len(sessions) < MaxOpen
    /\ GetUser(users, user_id)
    /\ sessions' = Append(sessions, SessionRow(user_id))
    /\ last' = [op |-> "create_session", ret |-> Len(sessions) + 1]
    /\ UNCHANGED <<cipherVars, users, face_data, zsecure_keys, operations_log,
                   security_events, auxVars>>

\* a request to a route behind login_required, with the cookie of a session
Request(user_id, session_id) ==
    /\ LoginRequired(user_id, session_id)
    /\ sessions' = UpdateSessionActivity(sessions, session_id)
    /\ last' = [op |-> "request"]
    /\ UNCHANGED <<cipherVars, users, face_data, zsecure_keys, operations_log,
                   security_events, auxVars>>

\* logout
Logout(session_id) ==
    /\ session_id \in DOMAIN sessions
    /\ sessions' = InvalidateSession(sessions, session_id)
    /\ last' = [op |-> "logout"]
    /\ UNCHANGED <<cipherVars, users, face_data, zsecure_keys, operations_log,
                   security_events, auxVars>>

\* DatabaseManager.cleanup_user_files
CleanupUserFiles(fs, user_id) == RemoveFile(fs, FaceFile(user_id))

\* delete_account for a logged-in user: the password is verified again,
\* the user's face file removed, the session of the request invalidated and
\* the account deleted.
DeleteAccount(user_id, session_id, password) ==
    /\ LoginRequired(user_id, session_id)
    /\ Len(security_events) < MaxEvents
    /\ LET active  == UpdateSessionActivity(sessions, session_id)
           found   == GetUser(users, user_id) /\ password # ""
           row     == IF found
                      THEN GetUserByEmail(users, users[user_id].email) ELSE 0
           verdict == IF found THEN Verdict(users, row, password, clock)
                      ELSE "none"
           checked == IF found
                      THEN UsersAfter(users, verdict, row, clock - utcoffset)
                      ELSE users
           logged  == IF found THEN EventsAfter(security_events, verdict, row)
                      ELSE security_events
       IN  IF verdict # "verified"
           THEN /\ users' = checked
                /\ security_events' = logged
                /\ sessions' = active
                /\ files' = files
                /\ last' = [op |-> "delete_account", user_id |-> user_id,
                            ret |-> FALSE]
           ELSE /\ users' = DeleteUserAccount(checked, user_id)
                /\ security_events' =
                     Append(logged, Event(user_id, "ACCOUNT_DELETED"))
                /\ sessions' = InvalidateSession(active, session_id)
                /\ files' = CleanupUserFiles(files, user_id)
                /\ last' = [op |-> "delete_account", user_id |-> user_id,
                            ret |-> TRUE]
    /\ UNCHANGED <<origin, clock, face_data, zsecure_keys, operations_log,
                   auxVars>>

CallUpdateSessionActivity(session_id) ==
    /\ session_id \in DOMAIN sessions
    /\ sessions' = UpdateSessionActivity(sessions, session_id)
    /\ last' = [op |-> "update_session_activity"]
    /\ UNCHANGED <<cipherVars, users, face_data, zsecure_keys, operations_log,
                   security_events, auxVars>>

\* extend_session(session_id), by the session timeout; a session is
\* extended to MaxAhead seconds after its creation at most.
CallExtendSession(session_id) ==
    /\ session_id \in DOMAIN sessions
    /\ sessions[session_id].expires_at + SessionTimeout
           <= sessions[session_id].created_at + utcoffset + MaxAhead
    /\ sessions' = ExtendSession(sessions, session_id, SessionTimeout)
    /\ last' = [op |-> "extend_session"]
    /\ UNCHANGED <<cipherVars, users, face_data, zsecure_keys, operations_log,
                   security_events, auxVars>>

CallCleanupExpiredSessions ==
    /\ sessions' = CleanupExpiredSessions(sessions, clock)
    /\ last' = [op |-> "cleanup_expired_sessions"]
    /\ UNCHANGED <<cipherVars, users, face_data, zsecure_keys, operations_log,
                   security_events, auxVars>>

NextSession ==
    \/ \E email \in {<<97>>} : CallCreateUser(email, Encoding("ndarray", Base))
    \/ \E user_id \in 1..MaxUsers : OpenSession(user_id)
    \/ \E user_id \in 1..MaxUsers, session_id \in DOMAIN sessions :
           Request(user_id, session_id)
    \/ \E session_id \in DOMAIN sessions : Logout(session_id)
    \/ \E user_id \in 1..MaxUsers, session_id \in DOMAIN sessions,
          password \in {"testpassword123", "123456"} :
           DeleteAccount(user_id, session_id, password)
    \/ \E session_id \in DOMAIN sessions : CallUpdateSessionActivity(session_id)
    \/ \E session_id \in DOMAIN sessions : CallExtendSession(session_id)
    \/ CallCleanupExpiredSessions
    \/ \E d \in {SessionTimeout + 1, DayLength} : Advance(d)

SpecSession == InitSession /\ [][NextSession]_vars

-----------------------------------------------------------------------------
(* Properties of the cipher API (SpecCipher) *)

\* The last call decrypted, with the key of its encryption, a container
\* exactly as encrypt_image wrote it.
DecryptedOwnContainer ==
    /\ last.op = "decrypt"
    /\ last.path \in DOMAIN origin
    /\ last.input = origin[last.path].container
    /\ last.key = origin[last.path].key

\* C1: round trip.  Decrypting, with key k, the container that encrypt_image
\* made from plaintext p with k returns a path whose file holds exactly p,
\* for every p (the empty one and the block-aligned ones included).
C1_RoundTrip ==
    DecryptedOwnContainer =>
        /\ last.ret # NoPath
        /\ files[last.ret] = origin[last.path].plain

\* A block-aligned, non-empty plaintext went through the round trip.
C1_Witness ==
    /\ DecryptedOwnContainer
    /\ Len(origin[last.path].plain) = BlockSize
    /\ last.ret # NoPath

\* C2: padding validation.  When the buffer that comes out of the block
\* cipher does not end in well-formed PKCS#7 padding, decrypt_image fails
\* and writes no plaintext.
C2_PaddingValidated ==
    (last.op = "decrypt" /\ Len(last.padded) > 0
        /\ ~PaddingWellFormed(last.padded))
        => /\ last.ret = NoPath
           /\ DecryptedPath(last.path) \notin DOMAIN files

\* What a caller of decrypt_image gets to see of a call: the returned value.
Outcome(r) == r.ret

\* C7: a container whose signature is not "ZSEC" is reported as a failure
\* whose outcome differs from the outcome of decrypting the intact container
\* with a bad key (any key other than the one it was encrypted with).
C7_FormatErrorDistinct ==
    \A k \in CallerKeys :
        (/\ last.op = "decrypt"
         /\ last.path \in DOMAIN origin
         /\ ~StartsWith(last.input, Signature)
         /\ k # origin[last.path].key)
        => LET intact == WriteFile(files, last.path, origin[last.path].container)
           IN  /\ last.ret = NoPath
               /\ Outcome(last) # Outcome(DecryptImage(intact, last.path, k))

-----------------------------------------------------------------------------
(* Properties of verify_face (SpecMatch) *)

BothValid ==
    /\ last.op = "verify_face"
    /\ IsValidEncoding(last.stored)
    /\ IsValidEncoding(last.probe)

LastDistanceSq == DistanceSq(last.stored.v, last.probe.v)

\* C9: with both encodings valid, verify_face accepts exactly when the
\* distance d satisfies 0.1 <= d <= 0.32 (0.8 of the tolerance 0.4): in
\* tenths squared, 1 <= d^2 and 100 * d^2 <= 1024.  So d < 0.1 is rejected
\* although it is below the tolerance, and d > 0.4 is rejected.
C9_AcceptBand ==
    BothValid =>
        (last.ret <=> (LastDistanceSq >= 1 /\ 100 * LastDistanceSq <= 1024))

\* Two valid encodings closer than 0.1 were compared, and rejected.
C9_Witness ==
    /\ BothValid
    /\ LastDistanceSq < 1
    /\ last.ret = FALSE

\* C10: verify_face returns False whenever the stored or the probe encoding
\* fails _is_valid_encoding (a missing stored encoding and an unprocessable
\* capture included), whatever their distance.
C10_InvalidRejected ==
    (last.op = "verify_face"
        /\ (~IsValidEncoding(last.stored) \/ ~IsValidEncoding(last.probe)))
        => last.ret = FALSE

\* An invalid stored encoding was compared with a valid capture at a
\* distance inside the accepting band.
C10_Witness ==
    /\ last.op = "verify_face"
    /\ ~IsValidEncoding(last.stored)
    /\ IsValidEncoding(last.probe)
    /\ Len(last.stored.v) = Len(last.probe.v)
    /\ LastDistanceSq >= 1
    /\ 100 * LastDistanceSq <= 1024
    /\ last.ret = FALSE

\* 1000 * n^3 times the variance of v in real units (v holds tenths): the
\* sum of the squared deviations n * v[i] - sum(v), times 10
ScaledVariance(v) ==
    LET n == Len(v)
        total == Sum(v)
    IN  10 * Sum([i \in 1..n |-> (n * v[i] - total) * (n * v[i] - total)])

\* C17: _is_valid_encoding returns true iff the encoding is an array of
\* exactly 128 elements, is neither all zeros nor all ones, has variance
\* >= 0.001 and every element has absolute value <= 5.0; constant vectors
\* and values that are no array are rejected.
C17_ValidIff ==
    last.op = "_is_valid_encoding" =>
        LET v == last.encoding.v
        IN  /\ last.ret <=>
                  /\ last.encoding.kind = "ndarray"
                  /\ Len(v) = 128
                  /\ \E i \in DOMAIN v : v[i] # 0
                  /\ \E i \in DOMAIN v : v[i] # 10
                  /\ ScaledVariance(v) >= 128 * 128 * 128
                  /\ \A i \in DOMAIN v : v[i] <= 50 /\ v[i] >= -50
            /\ (\A i, j \in DOMAIN v : v[i] = v[j]) => ~last.ret
            /\ last.encoding.kind # "ndarray" => ~last.ret

\* The vector of 128 values 0.3 was validated, and rejected.
C17_Witness ==
    /\ last.op = "_is_valid_encoding"
    /\ last.encoding.kind = "ndarray"
    /\ Len(last.encoding.v) = 128
    /\ \A i \in DOMAIN last.encoding.v : last.encoding.v[i] = 3
    /\ ~last.ret

\* C20: the match decision is symmetric.  verify_face with stored = a and
\* probe = b returns what it returns with stored = b and probe = a.
C20_Symmetric ==
    last.op = "verify_face" =>
        last.ret = VerifyFace(last.probe, last.stored)

\* Two different valid encodings were matched, and accepted.
C20_Witness ==
    /\ BothValid
    /\ last.stored # last.probe
    /\ last.ret
    /\ VerifyFace(last.probe, last.stored)

-----------------------------------------------------------------------------
(* Properties of key derivation (SpecKey) *)

C6_InvalidRefused ==
    \A a \in derived :
        (~IsValidEncoding(a.face_encoding) \/ a.email = << >>)
            => a.key = NoKey

-----------------------------------------------------------------------------
(* Properties of the store and process_image (SpecDb) *)

\* The last request was process_image decrypting, for a user, a container
\* that process_image had made for the same user.
DecryptedOwnUpload ==
    /\ last.op = "process_image"
    /\ last.operation = "decryption"
    /\ last.source \in DOMAIN origin
    /\ last.input = origin[last.source].container
    /\ origin[last.source].user_id = last.user_id

\* C3 as stated: the key get_zsecure_key returns for a user when a container
\* of theirs is decrypted is the key it returned when the container was
\* encrypted, whatever ran in between, update_face and update_face_data
\* included.
C3_KeyStable ==
    DecryptedOwnUpload => last.key = origin[last.source].key

\* C3, amended: the two keys are the same provided neither update_face nor
\* update_face_data ran for that user in between; what ran for other users
\* (their re-enrolment included) does not matter.
C3_KeyStableUntilReenrolled ==
    (DecryptedOwnUpload /\ ~origin[last.source].reenrolled)
        => last.key = origin[last.source].key

\* A user decrypted their container, with success, after another user had
\* re-enrolled and they had not.
C3_Witness ==
    /\ DecryptedOwnUpload
    /\ ~origin[last.source].reenrolled
    /\ last.success
    /\ \E i \in DOMAIN security_events :
         /\ security_events[i].event_type = "FACE_DATA_UPDATED"
         /\ security_events[i].user_id # last.user_id
         /\ security_events[i].user_id \in DOMAIN users

-----------------------------------------------------------------------------
(* Properties of encryption detection (SpecDetect) *)

LastFileSigned ==
    /\ last.path \in DOMAIN files
    /\ Slice(files[last.path], 0, 4) = Signature

\* C8 as stated: detect_encryption returns true exactly when the first 4
\* bytes of the file are "ZSEC", whatever the file (not an image, over the
\* size limit), and process_image decrypts exactly the uploads that begin
\* with "ZSEC".
C8_DetectIffSignature ==
    /\ last.op = "detect_encryption" => (last.ret <=> LastFileSigned)
    /\ last.op = "process_image" =>
         (last.operation = "decryption"
             <=> Slice(last.input, 0, 4) = Signature)

\* C8, amended: detect_encryption returns true exactly when the file is
\* readable, is not over the size limit of 16 MB, and either begins with
\* "ZSEC" or does not open as an image; process_image decrypts exactly the
\* uploads detect_encryption returns true for, and encrypts the others;
\* verify_encrypted_file is the test of the 4 bytes alone.
C8_DetectAmended ==
    /\ last.op = "detect_encryption" =>
         (last.ret <=>
             /\ last.path \in DOMAIN files
             /\ FileSize(files, extent, last.path) <= MaxFileSize
             /\ (LastFileSigned \/ ~ImageOpens(files[last.path])))
    /\ last.op = "process_image" =>
         /\ last.operation = "decryption"
              <=> (Slice(last.input, 0, 4) = Signature
                      \/ ~ImageOpens(last.input))
         /\ last.operation = "decryption" <=> last.is_encrypted
         /\ last.operation \in {"decryption", "encryption"}
    /\ last.op = "verify_encrypted_file" => (last.ret <=> LastFileSigned)

\* detect_encryption returned false for a file over the limit that begins
\* with "ZSEC".
C8_Witness ==
    /\ last.op = "detect_encryption"
    /\ LastFileSigned
    /\ FileSize(files, extent, last.path) > MaxFileSize
    /\ last.ret = FALSE

-----------------------------------------------------------------------------
(* Properties of the account and session handlers (SpecApp) *)

\* C4: no account and no session is created unless a liveness check was run
\* on the submitted capture and passed: whenever register_simple,
\* capture_face_bypass or capture_face has created a user, or
\* authenticate_face a session, the handler had a passed liveness result of
\* a check that was run.
C4_LivenessPrecedes ==
    (/\ last.op \in {"register_simple", "capture_face_bypass", "capture_face",
                     "authenticate_face"}
     /\ (last.user_id # 0 \/ last.session_id # 0))
        => (last.liveness.ran /\ last.liveness.is_live)

-----------------------------------------------------------------------------
(* Properties of the container layout (SpecCipher) *)

\* The last call was an encrypt_image that wrote a container.
Encrypted == last.op = "encrypt" /\ last.ret # NoPath

\* the big-endian number in bytes 4..8 of a container
LengthField(c) == c[5] * 16777216 + c[6] * 65536 + c[7] * 256 + c[8]

\* C12: every container written by encrypt_image begins with "ZSEC", the
\* big-endian uint32 at bytes 4..8 is the byte length of the metadata JSON
\* that follows, and the ciphertext after it has 16 * (len(plaintext) div
\* 16 + 1) bytes, a non-zero multiple of 16.
C12_ContainerLayout ==
    Encrypted =>
        LET c == files[last.ret]
            n == LengthField(c)
            cipher_len == Len(c) - 8 - n
        IN  /\ Len(c) >= 8
            /\ SubSeq(c, 1, 4) = <<90, 83, 69, 67>>
            /\ cipher_len > 0
            /\ c[9] = 123
            /\ c[8 + n] = 125
            /\ JsonLoads(SubSeq(c, 9, 8 + n)).ok
            /\ cipher_len = 16 * ((Len(origin[last.ret].plain) \div 16) + 1)
            /\ cipher_len % 16 = 0

\* A 10-byte plaintext was encrypted into a container of 16 ciphertext bytes.
C12_Witness ==
    /\ Encrypted
    /\ Len(origin[last.ret].plain) = 10
    /\ Len(files[last.ret]) - 8 - LengthField(files[last.ret]) = 16

\* C16: the chaos mixer rejects an empty input with an invalid-input error
\* (it returns no digest for it) and returns a 32-byte digest for every
\* non-empty input.
C16_EmptyRejected ==
    last.op = "_apply_chaos_algorithm" =>
        IF last.data = << >> THEN last.ret = NoKey
        ELSE Len(last.ret) = 32

-----------------------------------------------------------------------------
(* Properties of the key store (SpecDb) *)

\* every key generate_key_from_biometrics can return for an encoding and an
\* email that occur under SpecDb
AllKeys ==
    {GenerateKeyFromBiometrics(e, email) :
        e \in (AccountEncodings \cup CaptureEncodings) \ {NoEncoding},
        email \in Emails} \ {NoKey}

\* data holds the bytes of key somewhere
Contains(data, key) ==
    \E i \in 1..(Len(data) - Len(key) + 1) :
        SubSeq(data, i, i + Len(key) - 1) = key

\* C13: the derived key is never stored.  In every reachable state each
\* row of zsecure_keys holds only the user, a salt and the salted hash of a
\* key, no row and no file holds a key itself, and the key process_image
\* gets from get_zsecure_key is the one derived anew from the stored face
\* encoding and the email.
C13_KeyNeverStored ==
    /\ \A i \in DOMAIN zsecure_keys :
           /\ DOMAIN zsecure_keys[i] = {"user_id", "key_hash", "key_salt"}
           /\ Len(zsecure_keys[i].key_salt) = 32
           /\ \E k \in AllKeys :
                  zsecure_keys[i].key_hash =
                      Hex(Digest(zsecure_keys[i].key_salt \o k
                                     \o zsecure_keys[i].key_salt, 32))
           /\ \A k \in AllKeys :
                  /\ zsecure_keys[i].key_hash # k
                  /\ zsecure_keys[i].key_hash # Hex(k)
                  /\ zsecure_keys[i].key_salt # k
    /\ \A p \in DOMAIN files : \A k \in AllKeys : ~Contains(files[p], k)
    /\ last.op = "process_image" /\ last.key # NoKey =>
           /\ last.user_id \in DOMAIN users
           /\ last.key =
                  GenerateKeyFromBiometrics(GetFaceEncoding(last.user_id),
                                            users[last.user_id].email)

\* update_face stored a row for a user, and a later process_image of that
\* user got the key whose salted hash the row holds.
C13_Witness ==
    /\ last.op = "process_image"
    /\ last.key \in AllKeys
    /\ last.ret # NoPath
    /\ \E i \in DOMAIN zsecure_keys :
           /\ zsecure_keys[i].user_id = last.user_id
           /\ zsecure_keys[i].key_hash =
                  Hex(Digest(zsecure_keys[i].key_salt \o last.key
                                 \o zsecure_keys[i].key_salt, 32))

-----------------------------------------------------------------------------
(* Properties of concurrent requests (SpecConc) *)

\* What the request would have returned and written had it run alone: the
\* same upload, key, IV and time, on a file system holding only its upload.
Alone(req) ==
    LET own == WriteFile(NoFiles, req.filepath, req.file.data)
        key == GetZsecureKey(req.user_id)
    IN  IF DetectEncryption(own, NoExtent, req.filepath)
        THEN DecryptImage(own, req.filepath, key)
        ELSE EncryptImage(own, req.filepath, key, req.iv, req.now)

\* C14: no locking is needed.  Whatever the interleaving of the requests'
\* steps, each encrypt_image / decrypt_image reads its own upload, returns
\* the path and leaves the output it would have produced running alone; the
\* output stays as written while other requests run, and no two requests
\* write to the same path.
C14_NoInterference ==
    \A r \in DOMAIN requests :
        /\ requests[r].pc \in {"computed", "opened", "returned", "done"} =>
               requests[r].image_data = requests[r].file.data
        /\ requests[r].pc \in {"returned", "done"} =>
               \E alone \in {Alone(requests[r])} :
                   /\ requests[r].result_path = alone.ret
                   /\ requests[r].result_path # NoPath =>
                          /\ requests[r].result_path \in DOMAIN files
                          /\ files[requests[r].result_path] =
                                 alone.fs[requests[r].result_path]
        /\ \A q \in DOMAIN requests :
               q # r /\ requests[r].output_path # NoPath =>
                   requests[q].output_path # requests[r].output_path

\* Two requests with the same file name and different keys are inside
\* encrypt_image at once: one has opened its output, the other has written.
C14_Witness ==
    \E r, q \in DOMAIN requests :
        /\ requests[r].pc = "opened"
        /\ requests[q].pc = "returned"
        /\ requests[q].result_path # NoPath
        /\ requests[r].filename = requests[q].filename
        /\ requests[r].user_id # requests[q].user_id

-----------------------------------------------------------------------------
(* Properties of the liveness detector (SpecLive) *)

Checked == last.op = "comprehensive_liveness_check"

\* C11: liveness scoring.  For every combination of the four signal
\* outcomes, liveness_score is 0.25 times the number of passing signals,
\* checks_passed is that number, total_checks is 4, and liveness_passed is
\* true iff at least 2 signals pass.
C11_Scoring ==
    Checked =>
        \E n \in 0..4 :
            /\ n = Count(last.result.signals)
            /\ last.result.liveness_score = 25 * n
            /\ last.result.checks_passed = n
            /\ last.result.total_checks = 4
            /\ last.result.liveness_passed = (n >= 2)

\* A report with exactly two passing signals: score 0.5, passed.
C11_Witness ==
    /\ Checked
    /\ Count(last.result.signals) = 2
    /\ last.result.liveness_score = 50
    /\ last.result.liveness_passed

\* Neither FaceMesh nor FaceDetection finds a face in the frame, or the
\* frame cannot be converted at all.
NoFaceDetected ==
    \/ ~last.image.readable
    \/ ~last.image.mesh.found /\ ~last.image.detection.found

\* C15: when no face is detected in the frame, each extractor returns its
\* "not detected" default, none of the four signals counts as passed, and
\* the report has liveness_score 0 and liveness_passed false.
C15_NoFaceDefaults ==
    Checked /\ NoFaceDetected =>
        /\ last.result.blink_detection =
               [blink_detected |-> FALSE, left_ear |-> 0, right_ear |-> 0,
                avg_ear2 |-> 0]
        /\ ~last.result.head_movement.movement_detected
        /\ last.result.head_movement.head_pose =
               [pitch |-> 0, yaw |-> 0, roll |-> 0]
        /\ ~last.result.texture_analysis.face_detected
        /\ ~last.result.texture_analysis.is_real
        /\ ~last.result.face_quality.face_detected
        /\ ~last.result.face_quality.quality_sufficient
        /\ ~last.result.face_quality.brightness_ok
        /\ Count(last.result.signals) = 0
        /\ last.result.liveness_score = 0
        /\ ~last.result.liveness_passed

\* A readable frame in which neither detector found a face was checked.
C15_Witness ==
    /\ Checked
    /\ last.image.readable
    /\ ~last.image.mesh.found
    /\ ~last.image.detection.found
    /\ last.result.liveness_score = 0

\* C18: the quality signal passes iff the face's minimum side is >= 100
\* pixels and the face area is >= 10% of the frame and the mean brightness
\* of the face region lies in the closed interval [50, 200].
C18_QualityClosedInterval ==
    Checked /\ last.image.readable /\ last.image.detection.found =>
        (last.result.signals[4] <=>
            /\ Min(last.image.detection.face_width,
                   last.image.detection.face_height) >= 100
            /\ 10 * last.image.detection.face_width
                  * last.image.detection.face_height
                   >= FrameWidth * FrameHeight
            /\ last.image.detection.brightness >= 50
            /\ last.image.detection.brightness <= 200)

\* C19: with a face detected, the blink signal fails exactly on the narrow
\* band of average EAR between 0.15 and 0.2 and passes outside it.
C19_BlinkFailsOnBand ==
    Checked /\ last.image.readable /\ last.image.mesh.found =>
        (~last.result.signals[1] <=>
            /\ last.result.blink_detection.avg_ear2 >= 30
            /\ last.result.blink_detection.avg_ear2 <= 40)

-----------------------------------------------------------------------------
(* Properties of decrypt_image's effect on the files (SpecCipher) *)

\* C21: decrypt_image never modifies its input container, and whenever it
\* fails (bad signature, truncated header, unparsable metadata, missing or
\* malformed IV, ciphertext empty or not a multiple of 16) it returns None
\* without writing any file: a call leaves every file but its output as
\* it was, and a call that returns None leaves the files as they were.
C21_DecryptFrame ==
    [][last'.op = "decrypt" /\ last' # last =>
          /\ files'[last'.path] = files[last'.path]
          /\ \A p \in DOMAIN files :
                 p # DecryptedPath(last'.path) => files'[p] = files[p]
          /\ last'.ret = NoPath => files' = files
          /\ last'.ret # NoPath =>
                 /\ last'.ret = DecryptedPath(last'.path)
                 /\ DOMAIN files' = DOMAIN files \cup {last'.ret}]_vars

\* decrypt_image returned None on a container cut inside its first cipher
\* block, and there is no decrypted file.
C21_Witness ==
    /\ last.op = "decrypt"
    /\ last.ret = NoPath
    /\ last.stage = "finalize"
    /\ last.path \in DOMAIN origin
    /\ files[last.path] = last.input
    /\ DecryptedPath(last.path) \notin DOMAIN files

-----------------------------------------------------------------------------
(* Properties of the operations log (SpecDb) *)

\* C29: process_image records an operation as successful only if the
\* encryption or decryption produced an output file: when encrypt_image or
\* decrypt_image returned None the row it logged is not a success row, and
\* the response is a failure.
C29_LoggedOnlyOnOutput ==
    last.op = "process_image" =>
        /\ operations_log[Len(operations_log)].success => last.ret # NoPath
        /\ last.ret = NoPath => ~last.success

-----------------------------------------------------------------------------
(* Properties of the login flow (SpecApp) *)

\* C24: a session for user u is created by authenticate_face only if the
\* password verification of login succeeded for that same user earlier:
\* whenever authenticate_face has just created a session, some login
\* answered before it had verified the password of the session's user.
C24_PasswordPrecedesSession ==
    last.op = "authenticate_face" /\ last.session_id # 0 =>
        \E r \in DOMAIN requests :
            /\ requests[r].op = "login"
            /\ requests[r].user_id = sessions[last.session_id].user_id

-----------------------------------------------------------------------------
(* Properties of account deletion and of sessions (SpecSession) *)

\* C22: after delete_user_account(u) has returned true no row of u remains
\* in users, face_data, zsecure_keys, sessions or operations_log (get_user
\* and get_face_data return None), while u's security_events are kept.
C22_DeleteRemovesRows ==
    \A u \in DOMAIN users :
        users[u].deleted =>
            /\ ~GetUser(users, u)
            /\ GetFaceEncoding(u) = NoEncoding
            /\ \A i \in DOMAIN face_data : face_data[i].user_id # u
            /\ \A i \in DOMAIN zsecure_keys : zsecure_keys[i].user_id # u
            /\ \A i \in DOMAIN sessions :
                   sessions[i].deleted \/ sessions[i].user_id # u
            /\ \A i \in DOMAIN operations_log : operations_log[i].user_id # u
            /\ \E i \in DOMAIN security_events : security_events[i].user_id = u

\* C23: once invalidate_session(s) has run, is_session_valid(s) is false
\* and login_required rejects a request presenting s: no session whose
\* row has been marked inactive is valid.
C23_InvalidatedStaysInvalid ==
    \A s \in DOMAIN sessions :
        ~sessions[s].deleted /\ ~sessions[s].is_active =>
            /\ ~IsSessionValid(s)
            /\ ~LoginRequired(sessions[s].user_id, s)

\* C27: once a session has expired, no call of update_session_activity,
\* extend_session or cleanup_expired_sessions (and no other step) makes
\* is_session_valid true for it again.
C27_ExpiredStaysInvalid ==
    [][\A s \in DOMAIN sessions :
           clock > sessions[s].expires_at =>
               \/ sessions'[s].deleted
               \/ clock' > sessions'[s].expires_at]_vars

\* C28: after delete_account has succeeded for user u, no session created
\* for u, the one of the request or any other, is accepted by
\* is_session_valid or login_required.
C28_NoSessionAfterDelete ==
    \A u \in DOMAIN users :
        users[u].deleted =>
            \A s \in DOMAIN sessions :
                sessions[s].user_id = u =>
                    /\ ~IsSessionValid(s)
                    /\ ~LoginRequired(u, s)

-----------------------------------------------------------------------------
(* Properties of the lockout (SpecLockout, SpecGuess) *)

\* calls i-4 .. i of the history are five verifications in a row that
\* failed on the password, for one account
FiveFailed(i) ==
    /\ i >= MaxFailedAttempts
    /\ \A k \in (i - MaxFailedAttempts + 1)..i :
           /\ requests[k].verdict = "failed"
           /\ requests[k].user_id = requests[i].user_id

\* C25: after 5 consecutive failed verify_user_credentials calls for an
\* account, every call for it during the next 30 minutes returns None,
\* even with the correct password, and leaves failed_attempts unchanged;
\* a successful verification leaves failed_attempts 0 and locked_until
\* NULL.
C25_Lockout ==
    /\ \A i \in DOMAIN requests : \A j \in DOMAIN requests :
           /\ FiveFailed(i)
           /\ j > i
           /\ requests[j].user_id = requests[i].user_id
           /\ requests[j].now < requests[i].now + LockoutDuration
           => /\ requests[j].ret = 0
              /\ requests[j].failed_after = requests[j].failed_before
    /\ \A j \in DOMAIN requests :
           requests[j].ret # 0 =>
               /\ requests[j].failed_after = 0
               /\ requests[j].locked_after = Null

\* C26: under any interleaving of concurrent verify_user_credentials calls
\* for one account at most 5 wrong passwords are checked against the hash,
\* and no password is checked while failed_attempts is 5 or more.
C26_AtMostFiveGuesses ==
    /\ Cardinality({r \in DOMAIN requests : requests[r].verdict = "failed"})
           <= MaxFailedAttempts
    /\ \A r \in DOMAIN requests :
           requests[r].verdict \in {"failed", "verified"} =>
               requests[r].failed_attempts < MaxFailedAttempts

-----------------------------------------------------------------------------
(* Properties of concurrent registration (SpecRegister) *)

\* the calls made for an email
Calls(email) == {r \in DOMAIN requests : requests[r].email = email}

====
